---- MODULE Spec2Model ----
(***************************************************************************)
(* State-machine model of the three Clarity contracts                      *)
(*   provider-verification  (Credential Registry)                          *)
(*   access-control         (Consent & Grant Ledger)                       *)
(*   audit-trail            (Audit Log)                                    *)
(* Every public function is one atomic transaction.  A Clarity map is a    *)
(* function whose DOMAIN is the set of keys present; an optional value is  *)
(* the empty tuple (none) or a one-element tuple (some v); a response is   *)
(* the number OkTrue for (ok true) or the error code u<n> for (err u<n>).  *)
(***************************************************************************)
EXTENDS Integers, Sequences, FiniteSets, TLC

\* ------------------------------------------------------------------ bounds
MaxHeight == 3
MaxProviderAccesses == 3
MaxCalls == 3

\* ------------------------------------------------------- program constants
ERR_INVALID_GRANT == 101
ERR_GRANT_EXPIRED == 102
ERR_GRANT_NOT_FOUND == 103
ERR_PROVIDER_NOT_VERIFIED == 104
ERR_INVALID_PATIENT_BNS == 105
ERR_INVALID_SCOPE == 106
ERR_CONSENT_NOT_FOUND == 107
ERR_CONSENT_NOT_APPROVED == 108
ERR_INVALID_MAX_ACCESSES == 109
MAX_GRANT_DURATION == 52560000

ERR_INVALID_EVENT == 200
ERR_UNAUTHORIZED_LOGGER == 201

ERR_NOT_AUTHORIZED == 300
ERR_PROVIDER_NOT_FOUND == 301
ERR_INVALID_CREDENTIALS == 302
ERR_CREDENTIALS_EXPIRED == 303
ERR_PROVIDER_SUSPENDED == 304
ERR_INVALID_CREDENTIAL_TYPE == 305
ERR_PROVIDER_ALREADY_EXISTS == 306
ERR_INVALID_EXPIRY_DATE == 307
MIN_CREDENTIAL_VALIDITY_BLOCKS == 144

OkTrue == 0

CONTRACT_OWNER == "deployer"
ACCESS_CONTROL == ".access-control"
CONSENT_APPROVED == "approved"
CONSENT_REVOKED == "revoked"

\* ---------------------------------------------------------------- inputs
Senders == {"deployer", "p1"}
OtherContracts == {".other-contract"}
Providers == {"p1"}
PatientBns == {"", "patient-1"}
CredentialTypes == {"medical-license"}
TypeLists == {<<"medical-license">>, <<"medical-license", "dea-registration">>}
Scopes == {<<>>, <<"lab-results">>}
CredentialHashes == {"", "hash-1"}
EventIds == {"", "event-1"}
EventTypes == {"", "access_granted"}
Licenses == {"MD123456"}
Authorities == {"State Medical Board"}
Reasons == {"license under review"}
Descriptions == {"Medical License"}
CredentialExpiryOffsets == {0, 1, MIN_CREDENTIAL_VALIDITY_BLOCKS + 1}
GrantExpiryOffsets == {0, 1, MAX_GRANT_DURATION - 1, MAX_GRANT_DURATION, MAX_GRANT_DURATION + 1}
MaxAccessesChoices == {<<>>, <<0>>, <<2>>}
Heights == 1..MaxHeight

\* ------------------------------------------------------- optional and maps
None == <<>>
Some(v) == <<v>>
MapGet(m, k) == IF k \in DOMAIN m THEN Some(m[k]) ELSE None
MapSet(m, k, v) == [x \in (DOMAIN m) \cup {k} |-> IF x = k THEN v ELSE m[x]]
EmptyMap == [x \in {} |-> x]

VARIABLES height, providerCredentials, providerStatus, validCredentialTypes, credentialVerifications, accessGrants, patientConsents, auditEvents, patientEventIndex, patientEventCount, last, patientProfiles, registerPatientCalls

registryVars == <<providerCredentials, providerStatus, validCredentialTypes, credentialVerifications>>
ledgerVars == <<accessGrants, patientConsents>>
auditVars == <<auditEvents, patientEventIndex, patientEventCount>>
identityVars == <<patientProfiles, registerPatientCalls>>
vars == <<height, providerCredentials, providerStatus, validCredentialTypes, credentialVerifications, accessGrants, patientConsents, auditEvents, patientEventIndex, patientEventCount, last, patientProfiles, registerPatientCalls>>

\* ------------------------------------------------- provider-verification
generate_verification_id(provider) == "verification-id"

is_valid_credential_type(credential_type) == MapGet(validCredentialTypes, credential_type) # None

\* mutant: only the first supplied tag is looked up
validate_credential_types_first_only(types) == Len(types) = 0 \/ is_valid_credential_type(types[1])

validate_credential_types(types) == Len(types) = Len(SelectSeq(types, is_valid_credential_type))

\* mutant: an existing record is not looked for
register_provider_overwrites(sender, provider, license_number, credential_types, expires_at, issuing_authority, credential_hash) ==
  LET unchanged == [credentials |-> providerCredentials, status |-> providerStatus, verifications |-> credentialVerifications]
  IN  IF sender # CONTRACT_OWNER THEN [result |-> ERR_NOT_AUTHORIZED] @@ unchanged
      ELSE IF ~(expires_at > height) THEN [result |-> ERR_INVALID_EXPIRY_DATE] @@ unchanged
      ELSE IF ~(expires_at > height + MIN_CREDENTIAL_VALIDITY_BLOCKS) THEN [result |-> ERR_INVALID_EXPIRY_DATE] @@ unchanged
      ELSE IF ~validate_credential_types(credential_types) THEN [result |-> ERR_INVALID_CREDENTIAL_TYPE] @@ unchanged
      ELSE IF ~(Len(credential_hash) > 0) THEN [result |-> ERR_INVALID_CREDENTIALS] @@ unchanged
      ELSE [result |-> OkTrue,
            credentials |-> MapSet(providerCredentials, provider,
               [license_number |-> license_number, credential_types |-> credential_types,
                issued_at |-> height, expires_at |-> expires_at,
                issuing_authority |-> issuing_authority, verification_status |-> "verified",
                last_verified |-> height, suspension_reason |-> None]),
            verifications |-> MapSet(credentialVerifications, <<provider, generate_verification_id(provider)>>,
               [verified_by |-> sender, verification_date |-> height, credential_hash |-> credential_hash,
                verification_result |-> "verified", notes |-> None]),
            status |-> MapSet(providerStatus, provider,
               [registration_date |-> height, last_activity |-> height, access_count |-> 0,
                status |-> "active", updated_by |-> sender])]

\* mutant: a registration that writes no provider-status record
register_provider_without_status(sender, provider, license_number, credential_types, expires_at, issuing_authority, credential_hash) ==
  LET unchanged == [credentials |-> providerCredentials, status |-> providerStatus, verifications |-> credentialVerifications]
  IN  IF sender # CONTRACT_OWNER THEN [result |-> ERR_NOT_AUTHORIZED] @@ unchanged
      ELSE IF MapGet(providerCredentials, provider) # None THEN [result |-> ERR_PROVIDER_ALREADY_EXISTS] @@ unchanged
      ELSE IF ~(expires_at > height) THEN [result |-> ERR_INVALID_EXPIRY_DATE] @@ unchanged
      ELSE IF ~(expires_at > height + MIN_CREDENTIAL_VALIDITY_BLOCKS) THEN [result |-> ERR_INVALID_EXPIRY_DATE] @@ unchanged
      ELSE IF ~validate_credential_types(credential_types) THEN [result |-> ERR_INVALID_CREDENTIAL_TYPE] @@ unchanged
      ELSE IF ~(Len(credential_hash) > 0) THEN [result |-> ERR_INVALID_CREDENTIALS] @@ unchanged
      ELSE [result |-> OkTrue,
            credentials |-> MapSet(providerCredentials, provider,
               [license_number |-> license_number, credential_types |-> credential_types,
                issued_at |-> height, expires_at |-> expires_at,
                issuing_authority |-> issuing_authority, verification_status |-> "verified",
                last_verified |-> height, suspension_reason |-> None]),
            verifications |-> MapSet(credentialVerifications, <<provider, generate_verification_id(provider)>>,
               [verified_by |-> sender, verification_date |-> height, credential_hash |-> credential_hash,
                verification_result |-> "verified", notes |-> None]),
            status |-> providerStatus]

register_provider(sender, provider, license_number, credential_types, expires_at, issuing_authority, credential_hash) ==
  LET unchanged == [credentials |-> providerCredentials, status |-> providerStatus, verifications |-> credentialVerifications]
  IN  IF sender # CONTRACT_OWNER THEN [result |-> ERR_NOT_AUTHORIZED] @@ unchanged
      ELSE IF MapGet(providerCredentials, provider) # None THEN [result |-> ERR_PROVIDER_ALREADY_EXISTS] @@ unchanged
      ELSE IF ~(expires_at > height) THEN [result |-> ERR_INVALID_EXPIRY_DATE] @@ unchanged
      ELSE IF ~(expires_at > height + MIN_CREDENTIAL_VALIDITY_BLOCKS) THEN [result |-> ERR_INVALID_EXPIRY_DATE] @@ unchanged
      ELSE IF ~validate_credential_types(credential_types) THEN [result |-> ERR_INVALID_CREDENTIAL_TYPE] @@ unchanged
      ELSE IF ~(Len(credential_hash) > 0) THEN [result |-> ERR_INVALID_CREDENTIALS] @@ unchanged
      ELSE [result |-> OkTrue,
            credentials |-> MapSet(providerCredentials, provider,
               [license_number |-> license_number, credential_types |-> credential_types,
                issued_at |-> height, expires_at |-> expires_at,
                issuing_authority |-> issuing_authority, verification_status |-> "verified",
                last_verified |-> height, suspension_reason |-> None]),
            verifications |-> MapSet(credentialVerifications, <<provider, generate_verification_id(provider)>>,
               [verified_by |-> sender, verification_date |-> height, credential_hash |-> credential_hash,
                verification_result |-> "verified", notes |-> None]),
            status |-> MapSet(providerStatus, provider,
               [registration_date |-> height, last_activity |-> height, access_count |-> 0,
                status |-> "active", updated_by |-> sender])]

\* mutant: the provider status is not looked at
verify_provider_ignores_status(provider) ==
  LET credentials == MapGet(providerCredentials, provider)
      status == MapGet(providerStatus, provider)
  IN  IF credentials = None THEN ERR_PROVIDER_NOT_FOUND
      ELSE IF status = None THEN ERR_PROVIDER_NOT_FOUND
      ELSE LET creds == credentials[1]
           IN  IF /\ creds.verification_status = "verified"
                  /\ creds.expires_at > height
               THEN OkTrue
               ELSE IF height > creds.expires_at THEN ERR_CREDENTIALS_EXPIRED
               ELSE ERR_INVALID_CREDENTIALS

verify_provider(provider) ==
  LET credentials == MapGet(providerCredentials, provider)
      status == MapGet(providerStatus, provider)
  IN  IF credentials = None THEN ERR_PROVIDER_NOT_FOUND
      ELSE IF status = None THEN ERR_PROVIDER_NOT_FOUND
      ELSE LET creds == credentials[1]
               stat == status[1]
           IN  IF /\ creds.verification_status = "verified"
                  /\ creds.expires_at > height
                  /\ stat.status = "active"
               THEN OkTrue
               ELSE IF height > creds.expires_at THEN ERR_CREDENTIALS_EXPIRED
               ELSE IF stat.status # "active" THEN ERR_PROVIDER_SUSPENDED
               ELSE ERR_INVALID_CREDENTIALS

\* mutant: an update that also lifts the suspension reason
update_provider_credentials_clears_reason(sender, provider, new_expires_at, new_credential_types) ==
  IF sender # CONTRACT_OWNER THEN [result |-> ERR_NOT_AUTHORIZED, credentials |-> providerCredentials]
  ELSE IF MapGet(providerCredentials, provider) = None THEN [result |-> ERR_PROVIDER_NOT_FOUND, credentials |-> providerCredentials]
  ELSE IF ~(new_expires_at > height) THEN [result |-> ERR_INVALID_EXPIRY_DATE, credentials |-> providerCredentials]
  ELSE IF ~validate_credential_types(new_credential_types) THEN [result |-> ERR_INVALID_CREDENTIAL_TYPE, credentials |-> providerCredentials]
  ELSE [result |-> OkTrue,
        credentials |-> MapSet(providerCredentials, provider,
           [providerCredentials[provider] EXCEPT !.credential_types = new_credential_types,
                                                     !.expires_at = new_expires_at,
                                                     !.last_verified = height,
                                                     !.suspension_reason = None])]

update_provider_credentials(sender, provider, new_expires_at, new_credential_types) ==
  IF sender # CONTRACT_OWNER THEN [result |-> ERR_NOT_AUTHORIZED, credentials |-> providerCredentials]
  ELSE IF MapGet(providerCredentials, provider) = None THEN [result |-> ERR_PROVIDER_NOT_FOUND, credentials |-> providerCredentials]
  ELSE IF ~(new_expires_at > height) THEN [result |-> ERR_INVALID_EXPIRY_DATE, credentials |-> providerCredentials]
  ELSE IF ~validate_credential_types(new_credential_types) THEN [result |-> ERR_INVALID_CREDENTIAL_TYPE, credentials |-> providerCredentials]
  ELSE [result |-> OkTrue,
        credentials |-> MapSet(providerCredentials, provider,
           [providerCredentials[provider] EXCEPT !.credential_types = new_credential_types,
                                                     !.expires_at = new_expires_at,
                                                     !.last_verified = height])]

\* mutant: the contract-owner check comes after the existence check
suspend_provider_late_auth(sender, provider, reason) ==
  IF MapGet(providerStatus, provider) = None THEN [result |-> ERR_PROVIDER_NOT_FOUND, credentials |-> providerCredentials, status |-> providerStatus]
  ELSE IF sender # CONTRACT_OWNER THEN [result |-> ERR_NOT_AUTHORIZED, credentials |-> providerCredentials, status |-> providerStatus]
  ELSE [result |-> OkTrue,
        status |-> MapSet(providerStatus, provider,
           [providerStatus[provider] EXCEPT !.status = "suspended", !.updated_by = sender]),
        credentials |-> MapSet(providerCredentials, provider,
           [providerCredentials[provider] EXCEPT !.suspension_reason = Some(reason)])]

suspend_provider(sender, provider, reason) ==
  IF sender # CONTRACT_OWNER THEN [result |-> ERR_NOT_AUTHORIZED, credentials |-> providerCredentials, status |-> providerStatus]
  ELSE IF MapGet(providerStatus, provider) = None THEN [result |-> ERR_PROVIDER_NOT_FOUND, credentials |-> providerCredentials, status |-> providerStatus]
  ELSE [result |-> OkTrue,
        status |-> MapSet(providerStatus, provider,
           [providerStatus[provider] EXCEPT !.status = "suspended", !.updated_by = sender]),
        credentials |-> MapSet(providerCredentials, provider,
           [providerCredentials[provider] EXCEPT !.suspension_reason = Some(reason)])]

\* mutant: reactivation that leaves the suspension reason on the credential
reactivate_provider_keeps_reason(sender, provider) ==
  IF sender # CONTRACT_OWNER THEN [result |-> ERR_NOT_AUTHORIZED, credentials |-> providerCredentials, status |-> providerStatus]
  ELSE IF MapGet(providerStatus, provider) = None THEN [result |-> ERR_PROVIDER_NOT_FOUND, credentials |-> providerCredentials, status |-> providerStatus]
  ELSE IF providerStatus[provider].status # "suspended" THEN [result |-> ERR_INVALID_CREDENTIALS, credentials |-> providerCredentials, status |-> providerStatus]
  ELSE [result |-> OkTrue,
        status |-> MapSet(providerStatus, provider,
           [providerStatus[provider] EXCEPT !.status = "active", !.updated_by = sender]),
        credentials |-> providerCredentials]

reactivate_provider(sender, provider) ==
  IF sender # CONTRACT_OWNER THEN [result |-> ERR_NOT_AUTHORIZED, credentials |-> providerCredentials, status |-> providerStatus]
  ELSE IF MapGet(providerStatus, provider) = None THEN [result |-> ERR_PROVIDER_NOT_FOUND, credentials |-> providerCredentials, status |-> providerStatus]
  ELSE IF providerStatus[provider].status # "suspended" THEN [result |-> ERR_INVALID_CREDENTIALS, credentials |-> providerCredentials, status |-> providerStatus]
  ELSE [result |-> OkTrue,
        status |-> MapSet(providerStatus, provider,
           [providerStatus[provider] EXCEPT !.status = "active", !.updated_by = sender]),
        credentials |-> MapSet(providerCredentials, provider,
           [providerCredentials[provider] EXCEPT !.suspension_reason = None])]

get_provider_credentials(provider) == MapGet(providerCredentials, provider)

get_provider_status(provider) == MapGet(providerStatus, provider)

add_credential_type(sender, credential_type, description, required_for_access) ==
  IF sender # CONTRACT_OWNER THEN [result |-> ERR_NOT_AUTHORIZED, types |-> validCredentialTypes]
  ELSE [result |-> OkTrue,
        types |-> MapSet(validCredentialTypes, credential_type,
           [description |-> description, required_for_access |-> required_for_access, created_at |-> height])]

\* mutant: the contract-caller check is missing
record_provider_activity_unchecked(contract_caller, provider) ==
  IF MapGet(providerStatus, provider) = None THEN [result |-> ERR_PROVIDER_NOT_FOUND, status |-> providerStatus]
  ELSE [result |-> OkTrue,
        status |-> MapSet(providerStatus, provider,
           [providerStatus[provider] EXCEPT !.last_activity = height,
                                            !.access_count = providerStatus[provider].access_count + 1])]

\* mutant: activity that refreshes last-activity without counting
record_provider_activity_uncounted(contract_caller, provider) ==
  IF contract_caller # ACCESS_CONTROL THEN [result |-> ERR_NOT_AUTHORIZED, status |-> providerStatus]
  ELSE IF MapGet(providerStatus, provider) = None THEN [result |-> ERR_PROVIDER_NOT_FOUND, status |-> providerStatus]
  ELSE [result |-> OkTrue,
        status |-> MapSet(providerStatus, provider,
           [providerStatus[provider] EXCEPT !.last_activity = height])]

record_provider_activity(contract_caller, provider) ==
  IF contract_caller # ACCESS_CONTROL THEN [result |-> ERR_NOT_AUTHORIZED, status |-> providerStatus]
  ELSE IF MapGet(providerStatus, provider) = None THEN [result |-> ERR_PROVIDER_NOT_FOUND, status |-> providerStatus]
  ELSE [result |-> OkTrue,
        status |-> MapSet(providerStatus, provider,
           [providerStatus[provider] EXCEPT !.last_activity = height,
                                            !.access_count = providerStatus[provider].access_count + 1])]

\* ------------------------------------------------------------ audit-trail
\* mutant: the contract-caller check is missing
log_event_unchecked(contract_caller, event_id, patient_bns, provider, event_type, record_scope, details) ==
  LET unchanged == [events |-> auditEvents, index |-> patientEventIndex, count |-> patientEventCount]
      current_count == IF patient_bns \in DOMAIN patientEventCount THEN patientEventCount[patient_bns].count ELSE 0
  IN  IF ~(Len(event_id) > 0) THEN [result |-> ERR_INVALID_EVENT] @@ unchanged
      ELSE IF MapGet(auditEvents, event_id) # None THEN [result |-> ERR_INVALID_EVENT] @@ unchanged
      ELSE IF ~(Len(patient_bns) > 0) THEN [result |-> ERR_INVALID_EVENT] @@ unchanged
      ELSE IF ~(Len(event_type) > 0) THEN [result |-> ERR_INVALID_EVENT] @@ unchanged
      ELSE [result |-> OkTrue,
            events |-> MapSet(auditEvents, event_id,
               [patient_bns |-> patient_bns, provider |-> provider, event_type |-> event_type,
                block_height |-> height, record_scope |-> record_scope, details |-> details]),
            index |-> MapSet(patientEventIndex, <<patient_bns, current_count>>, [event_id |-> event_id]),
            count |-> MapSet(patientEventCount, patient_bns, [count |-> current_count + 1])]

\* mutant: a stored event id is accepted again
log_event_overwrites(contract_caller, event_id, patient_bns, provider, event_type, record_scope, details) ==
  LET unchanged == [events |-> auditEvents, index |-> patientEventIndex, count |-> patientEventCount]
      current_count == IF patient_bns \in DOMAIN patientEventCount THEN patientEventCount[patient_bns].count ELSE 0
  IN  IF contract_caller # ACCESS_CONTROL THEN [result |-> ERR_UNAUTHORIZED_LOGGER] @@ unchanged
      ELSE IF ~(Len(event_id) > 0) THEN [result |-> ERR_INVALID_EVENT] @@ unchanged
      ELSE IF ~(Len(patient_bns) > 0) THEN [result |-> ERR_INVALID_EVENT] @@ unchanged
      ELSE IF ~(Len(event_type) > 0) THEN [result |-> ERR_INVALID_EVENT] @@ unchanged
      ELSE [result |-> OkTrue,
            events |-> MapSet(auditEvents, event_id,
               [patient_bns |-> patient_bns, provider |-> provider, event_type |-> event_type,
                block_height |-> height, record_scope |-> record_scope, details |-> details]),
            index |-> MapSet(patientEventIndex, <<patient_bns, current_count>>, [event_id |-> event_id]),
            count |-> MapSet(patientEventCount, patient_bns, [count |-> current_count + 1])]

\* mutant: the index position is taken after the increment
log_event_one_based(contract_caller, event_id, patient_bns, provider, event_type, record_scope, details) ==
  LET unchanged == [events |-> auditEvents, index |-> patientEventIndex, count |-> patientEventCount]
      current_count == IF patient_bns \in DOMAIN patientEventCount THEN patientEventCount[patient_bns].count ELSE 0
  IN  IF contract_caller # ACCESS_CONTROL THEN [result |-> ERR_UNAUTHORIZED_LOGGER] @@ unchanged
      ELSE IF ~(Len(event_id) > 0) THEN [result |-> ERR_INVALID_EVENT] @@ unchanged
      ELSE IF MapGet(auditEvents, event_id) # None THEN [result |-> ERR_INVALID_EVENT] @@ unchanged
      ELSE IF ~(Len(patient_bns) > 0) THEN [result |-> ERR_INVALID_EVENT] @@ unchanged
      ELSE IF ~(Len(event_type) > 0) THEN [result |-> ERR_INVALID_EVENT] @@ unchanged
      ELSE [result |-> OkTrue,
            events |-> MapSet(auditEvents, event_id,
               [patient_bns |-> patient_bns, provider |-> provider, event_type |-> event_type,
                block_height |-> height, record_scope |-> record_scope, details |-> details]),
            index |-> MapSet(patientEventIndex, <<patient_bns, current_count + 1>>, [event_id |-> event_id]),
            count |-> MapSet(patientEventCount, patient_bns, [count |-> current_count + 1])]

\* mutant: the patient's event count is stored without the increment
log_event_count_not_incremented(contract_caller, event_id, patient_bns, provider, event_type, record_scope, details) ==
  LET unchanged == [events |-> auditEvents, index |-> patientEventIndex, count |-> patientEventCount]
      current_count == IF patient_bns \in DOMAIN patientEventCount THEN patientEventCount[patient_bns].count ELSE 0
  IN  IF contract_caller # ACCESS_CONTROL THEN [result |-> ERR_UNAUTHORIZED_LOGGER] @@ unchanged
      ELSE IF ~(Len(event_id) > 0) THEN [result |-> ERR_INVALID_EVENT] @@ unchanged
      ELSE IF MapGet(auditEvents, event_id) # None THEN [result |-> ERR_INVALID_EVENT] @@ unchanged
      ELSE IF ~(Len(patient_bns) > 0) THEN [result |-> ERR_INVALID_EVENT] @@ unchanged
      ELSE IF ~(Len(event_type) > 0) THEN [result |-> ERR_INVALID_EVENT] @@ unchanged
      ELSE [result |-> OkTrue,
            events |-> MapSet(auditEvents, event_id,
               [patient_bns |-> patient_bns, provider |-> provider, event_type |-> event_type,
                block_height |-> height, record_scope |-> record_scope, details |-> details]),
            index |-> MapSet(patientEventIndex, <<patient_bns, current_count>>, [event_id |-> event_id]),
            count |-> MapSet(patientEventCount, patient_bns, [count |-> current_count])]

log_event(contract_caller, event_id, patient_bns, provider, event_type, record_scope, details) ==
  LET unchanged == [events |-> auditEvents, index |-> patientEventIndex, count |-> patientEventCount]
      current_count == IF patient_bns \in DOMAIN patientEventCount THEN patientEventCount[patient_bns].count ELSE 0
  IN  IF contract_caller # ACCESS_CONTROL THEN [result |-> ERR_UNAUTHORIZED_LOGGER] @@ unchanged
      ELSE IF ~(Len(event_id) > 0) THEN [result |-> ERR_INVALID_EVENT] @@ unchanged
      ELSE IF MapGet(auditEvents, event_id) # None THEN [result |-> ERR_INVALID_EVENT] @@ unchanged
      ELSE IF ~(Len(patient_bns) > 0) THEN [result |-> ERR_INVALID_EVENT] @@ unchanged
      ELSE IF ~(Len(event_type) > 0) THEN [result |-> ERR_INVALID_EVENT] @@ unchanged
      ELSE [result |-> OkTrue,
            events |-> MapSet(auditEvents, event_id,
               [patient_bns |-> patient_bns, provider |-> provider, event_type |-> event_type,
                block_height |-> height, record_scope |-> record_scope, details |-> details]),
            index |-> MapSet(patientEventIndex, <<patient_bns, current_count>>, [event_id |-> event_id]),
            count |-> MapSet(patientEventCount, patient_bns, [count |-> current_count + 1])]

get_patient_audit_trail(patient_bns) ==
  IF patient_bns \in DOMAIN patientEventCount THEN patientEventCount[patient_bns].count ELSE 0

get_event_details(event_id) == MapGet(auditEvents, event_id)

get_patient_event_id(patient_bns, event_number) == MapGet(patientEventIndex, <<patient_bns, event_number>>)

\* --------------------------------------------------------- access-control
\* mutant: a revoked consent record does not count as existing
approve_provider_access_after_revocation(sender, provider, record_scope, expires_at) ==
  IF /\ MapGet(patientConsents, <<sender, provider>>) # None
     /\ patientConsents[<<sender, provider>>].status # CONSENT_REVOKED
  THEN [result |-> ERR_INVALID_GRANT, consents |-> patientConsents]
  ELSE IF ~(Len(record_scope) > 0) THEN [result |-> ERR_INVALID_SCOPE, consents |-> patientConsents]
  ELSE [result |-> OkTrue,
        consents |-> MapSet(patientConsents, <<sender, provider>>,
           [status |-> CONSENT_APPROVED, record_scope |-> record_scope, consent_given_at |-> height,
            consent_expires_at |-> expires_at, revoked_at |-> None, revoked_by |-> None])]

\* mutant: an approval that refuses an expiry that is not in the future
approve_provider_access_future_expiry(sender, provider, record_scope, expires_at) ==
  IF MapGet(patientConsents, <<sender, provider>>) # None THEN [result |-> ERR_INVALID_GRANT, consents |-> patientConsents]
  ELSE IF ~(Len(record_scope) > 0) THEN [result |-> ERR_INVALID_SCOPE, consents |-> patientConsents]
  ELSE IF expires_at # None /\ ~(expires_at[1] > height) THEN [result |-> ERR_INVALID_GRANT, consents |-> patientConsents]
  ELSE [result |-> OkTrue,
        consents |-> MapSet(patientConsents, <<sender, provider>>,
           [status |-> CONSENT_APPROVED, record_scope |-> record_scope, consent_given_at |-> height,
            consent_expires_at |-> expires_at, revoked_at |-> None, revoked_by |-> None])]

approve_provider_access(sender, provider, record_scope, expires_at) ==
  IF MapGet(patientConsents, <<sender, provider>>) # None THEN [result |-> ERR_INVALID_GRANT, consents |-> patientConsents]
  ELSE IF ~(Len(record_scope) > 0) THEN [result |-> ERR_INVALID_SCOPE, consents |-> patientConsents]
  ELSE [result |-> OkTrue,
        consents |-> MapSet(patientConsents, <<sender, provider>>,
           [status |-> CONSENT_APPROVED, record_scope |-> record_scope, consent_given_at |-> height,
            consent_expires_at |-> expires_at, revoked_at |-> None, revoked_by |-> None])]

\* mutant: the consent of every patient for the provider is revoked
revoke_provider_consent_of_all(sender, provider) ==
  IF MapGet(patientConsents, <<sender, provider>>) = None THEN [result |-> ERR_CONSENT_NOT_FOUND, consents |-> patientConsents]
  ELSE [result |-> OkTrue,
        consents |-> [k \in DOMAIN patientConsents |->
           IF k[2] = provider
           THEN [patientConsents[k] EXCEPT !.status = CONSENT_REVOKED,
                                           !.revoked_at = Some(height),
                                           !.revoked_by = Some(sender)]
           ELSE patientConsents[k]]]

\* mutant: a revocation that removes the consent record
revoke_provider_consent_deletes(sender, provider) ==
  IF MapGet(patientConsents, <<sender, provider>>) = None THEN [result |-> ERR_CONSENT_NOT_FOUND, consents |-> patientConsents]
  ELSE [result |-> OkTrue,
        consents |-> [k \in DOMAIN patientConsents \ {<<sender, provider>>} |-> patientConsents[k]]]

revoke_provider_consent(sender, provider) ==
  IF MapGet(patientConsents, <<sender, provider>>) = None THEN [result |-> ERR_CONSENT_NOT_FOUND, consents |-> patientConsents]
  ELSE [result |-> OkTrue,
        consents |-> MapSet(patientConsents, <<sender, provider>>,
           [patientConsents[<<sender, provider>>] EXCEPT !.status = CONSENT_REVOKED,
                                                         !.revoked_at = Some(height),
                                                         !.revoked_by = Some(sender)])]

\* mutant: the expiry is tested before the status
has_patient_consent_expiry_first(patient, provider) ==
  LET consent == MapGet(patientConsents, <<patient, provider>>)
  IN  IF consent = None THEN ERR_CONSENT_NOT_FOUND
      ELSE IF consent[1].consent_expires_at # None /\ ~(consent[1].consent_expires_at[1] > height) THEN ERR_GRANT_EXPIRED
      ELSE IF consent[1].status = CONSENT_APPROVED THEN OkTrue
      ELSE ERR_CONSENT_NOT_APPROVED

has_patient_consent(patient, provider) ==
  LET consent == MapGet(patientConsents, <<patient, provider>>)
  IN  IF consent = None THEN ERR_CONSENT_NOT_FOUND
      ELSE IF consent[1].status = CONSENT_APPROVED
           THEN IF consent[1].consent_expires_at = None THEN OkTrue
                ELSE IF consent[1].consent_expires_at[1] > height THEN OkTrue
                ELSE ERR_GRANT_EXPIRED
           ELSE ERR_CONSENT_NOT_APPROVED

\* mutant: the grant is stored before max-accesses is validated and stays stored
grant_access_writes_before_validation(sender, provider, patient_bns, expiry_block, record_scope, max_accesses) ==
  LET unchanged == [grants |-> accessGrants, status |-> providerStatus]
      activity == record_provider_activity(ACCESS_CONTROL, provider)
      written == MapSet(accessGrants, <<patient_bns, provider>>,
               [expiry_block |-> expiry_block, record_scope |-> record_scope, granted_at |-> height,
                granted_by |-> sender, status |-> "active", max_accesses |-> max_accesses,
                access_count |-> 0, last_accessed |-> None])
  IN  IF verify_provider(provider) # OkTrue THEN [result |-> ERR_PROVIDER_NOT_VERIFIED] @@ unchanged
      ELSE IF ~(Len(patient_bns) > 0) THEN [result |-> ERR_INVALID_PATIENT_BNS] @@ unchanged
      ELSE IF ~(expiry_block > height) THEN [result |-> ERR_INVALID_GRANT] @@ unchanged
      ELSE IF ~(expiry_block - height < MAX_GRANT_DURATION) THEN [result |-> ERR_INVALID_GRANT] @@ unchanged
      ELSE IF ~(Len(record_scope) > 0) THEN [result |-> ERR_INVALID_SCOPE] @@ unchanged
      ELSE IF max_accesses # None /\ ~(max_accesses[1] > 0)
           THEN [result |-> ERR_INVALID_MAX_ACCESSES, grants |-> written, status |-> providerStatus]
      ELSE IF activity.result # OkTrue THEN [result |-> activity.result] @@ unchanged
      ELSE [result |-> OkTrue, grants |-> written, status |-> activity.status]

\* mutant: the provider is verified after the arguments are validated
grant_access_late_verify(sender, provider, patient_bns, expiry_block, record_scope, max_accesses) ==
  LET unchanged == [grants |-> accessGrants, status |-> providerStatus]
      activity == record_provider_activity(ACCESS_CONTROL, provider)
  IN  IF ~(Len(patient_bns) > 0) THEN [result |-> ERR_INVALID_PATIENT_BNS] @@ unchanged
      ELSE IF ~(expiry_block > height) THEN [result |-> ERR_INVALID_GRANT] @@ unchanged
      ELSE IF ~(expiry_block - height < MAX_GRANT_DURATION) THEN [result |-> ERR_INVALID_GRANT] @@ unchanged
      ELSE IF ~(Len(record_scope) > 0) THEN [result |-> ERR_INVALID_SCOPE] @@ unchanged
      ELSE IF max_accesses # None /\ ~(max_accesses[1] > 0) THEN [result |-> ERR_INVALID_MAX_ACCESSES] @@ unchanged
      ELSE IF verify_provider(provider) # OkTrue THEN [result |-> ERR_PROVIDER_NOT_VERIFIED] @@ unchanged
      ELSE IF activity.result # OkTrue THEN [result |-> activity.result] @@ unchanged
      ELSE [result |-> OkTrue,
            grants |-> MapSet(accessGrants, <<patient_bns, provider>>,
               [expiry_block |-> expiry_block, record_scope |-> record_scope, granted_at |-> height,
                granted_by |-> sender, status |-> "active", max_accesses |-> max_accesses,
                access_count |-> 0, last_accessed |-> None]),
            status |-> activity.status]

\* mutant: the duration of the grant is not bounded
grant_access_unbounded(sender, provider, patient_bns, expiry_block, record_scope, max_accesses) ==
  LET unchanged == [grants |-> accessGrants, status |-> providerStatus]
      activity == record_provider_activity(ACCESS_CONTROL, provider)
  IN  IF verify_provider(provider) # OkTrue THEN [result |-> ERR_PROVIDER_NOT_VERIFIED] @@ unchanged
      ELSE IF ~(Len(patient_bns) > 0) THEN [result |-> ERR_INVALID_PATIENT_BNS] @@ unchanged
      ELSE IF ~(expiry_block > height) THEN [result |-> ERR_INVALID_GRANT] @@ unchanged
      ELSE IF ~(Len(record_scope) > 0) THEN [result |-> ERR_INVALID_SCOPE] @@ unchanged
      ELSE IF max_accesses # None /\ ~(max_accesses[1] > 0) THEN [result |-> ERR_INVALID_MAX_ACCESSES] @@ unchanged
      ELSE IF activity.result # OkTrue THEN [result |-> activity.result] @@ unchanged
      ELSE [result |-> OkTrue,
            grants |-> MapSet(accessGrants, <<patient_bns, provider>>,
               [expiry_block |-> expiry_block, record_scope |-> record_scope, granted_at |-> height,
                granted_by |-> sender, status |-> "active", max_accesses |-> max_accesses,
                access_count |-> 0, last_accessed |-> None]),
            status |-> activity.status]

\* mutant: a new grant merged into the prior one, keeping its usage
grant_access_keeps_count(sender, provider, patient_bns, expiry_block, record_scope, max_accesses) ==
  LET unchanged == [grants |-> accessGrants, status |-> providerStatus]
      activity == record_provider_activity(ACCESS_CONTROL, provider)
      prior == MapGet(accessGrants, <<patient_bns, provider>>)
  IN  IF verify_provider(provider) # OkTrue THEN [result |-> ERR_PROVIDER_NOT_VERIFIED] @@ unchanged
      ELSE IF ~(Len(patient_bns) > 0) THEN [result |-> ERR_INVALID_PATIENT_BNS] @@ unchanged
      ELSE IF ~(expiry_block > height) THEN [result |-> ERR_INVALID_GRANT] @@ unchanged
      ELSE IF ~(expiry_block - height < MAX_GRANT_DURATION) THEN [result |-> ERR_INVALID_GRANT] @@ unchanged
      ELSE IF ~(Len(record_scope) > 0) THEN [result |-> ERR_INVALID_SCOPE] @@ unchanged
      ELSE IF max_accesses # None /\ ~(max_accesses[1] > 0) THEN [result |-> ERR_INVALID_MAX_ACCESSES] @@ unchanged
      ELSE IF activity.result # OkTrue THEN [result |-> activity.result] @@ unchanged
      ELSE [result |-> OkTrue,
            grants |-> MapSet(accessGrants, <<patient_bns, provider>>,
               [expiry_block |-> expiry_block, record_scope |-> record_scope, granted_at |-> height,
                granted_by |-> sender, status |-> "active", max_accesses |-> max_accesses,
                access_count |-> IF prior = None THEN 0 ELSE prior[1].access_count,
                last_accessed |-> IF prior = None THEN None ELSE prior[1].last_accessed]),
            status |-> activity.status]

\* mutant: a usage limit of zero is accepted
grant_access_allows_zero_limit(sender, provider, patient_bns, expiry_block, record_scope, max_accesses) ==
  LET unchanged == [grants |-> accessGrants, status |-> providerStatus]
      activity == record_provider_activity(ACCESS_CONTROL, provider)
  IN  IF verify_provider(provider) # OkTrue THEN [result |-> ERR_PROVIDER_NOT_VERIFIED] @@ unchanged
      ELSE IF ~(Len(patient_bns) > 0) THEN [result |-> ERR_INVALID_PATIENT_BNS] @@ unchanged
      ELSE IF ~(expiry_block > height) THEN [result |-> ERR_INVALID_GRANT] @@ unchanged
      ELSE IF ~(expiry_block - height < MAX_GRANT_DURATION) THEN [result |-> ERR_INVALID_GRANT] @@ unchanged
      ELSE IF ~(Len(record_scope) > 0) THEN [result |-> ERR_INVALID_SCOPE] @@ unchanged
      ELSE IF activity.result # OkTrue THEN [result |-> activity.result] @@ unchanged
      ELSE [result |-> OkTrue,
            grants |-> MapSet(accessGrants, <<patient_bns, provider>>,
               [expiry_block |-> expiry_block, record_scope |-> record_scope, granted_at |-> height,
                granted_by |-> sender, status |-> "active", max_accesses |-> max_accesses,
                access_count |-> 0, last_accessed |-> None]),
            status |-> activity.status]

\* mutant: a grant that does not ask the registry to verify the provider
grant_access_unverified(sender, provider, patient_bns, expiry_block, record_scope, max_accesses) ==
  LET unchanged == [grants |-> accessGrants, status |-> providerStatus]
      activity == record_provider_activity(ACCESS_CONTROL, provider)
  IN  IF ~(Len(patient_bns) > 0) THEN [result |-> ERR_INVALID_PATIENT_BNS] @@ unchanged
      ELSE IF ~(expiry_block > height) THEN [result |-> ERR_INVALID_GRANT] @@ unchanged
      ELSE IF ~(expiry_block - height < MAX_GRANT_DURATION) THEN [result |-> ERR_INVALID_GRANT] @@ unchanged
      ELSE IF ~(Len(record_scope) > 0) THEN [result |-> ERR_INVALID_SCOPE] @@ unchanged
      ELSE IF max_accesses # None /\ ~(max_accesses[1] > 0) THEN [result |-> ERR_INVALID_MAX_ACCESSES] @@ unchanged
      ELSE IF activity.result # OkTrue THEN [result |-> activity.result] @@ unchanged
      ELSE [result |-> OkTrue,
            grants |-> MapSet(accessGrants, <<patient_bns, provider>>,
               [expiry_block |-> expiry_block, record_scope |-> record_scope, granted_at |-> height,
                granted_by |-> sender, status |-> "active", max_accesses |-> max_accesses,
                access_count |-> 0, last_accessed |-> None]),
            status |-> activity.status]

grant_access(sender, provider, patient_bns, expiry_block, record_scope, max_accesses) ==
  LET unchanged == [grants |-> accessGrants, status |-> providerStatus]
      activity == record_provider_activity(ACCESS_CONTROL, provider)
  IN  IF verify_provider(provider) # OkTrue THEN [result |-> ERR_PROVIDER_NOT_VERIFIED] @@ unchanged
      ELSE IF ~(Len(patient_bns) > 0) THEN [result |-> ERR_INVALID_PATIENT_BNS] @@ unchanged
      ELSE IF ~(expiry_block > height) THEN [result |-> ERR_INVALID_GRANT] @@ unchanged
      ELSE IF ~(expiry_block - height < MAX_GRANT_DURATION) THEN [result |-> ERR_INVALID_GRANT] @@ unchanged
      ELSE IF ~(Len(record_scope) > 0) THEN [result |-> ERR_INVALID_SCOPE] @@ unchanged
      ELSE IF max_accesses # None /\ ~(max_accesses[1] > 0) THEN [result |-> ERR_INVALID_MAX_ACCESSES] @@ unchanged
      ELSE IF activity.result # OkTrue THEN [result |-> activity.result] @@ unchanged
      ELSE [result |-> OkTrue,
            grants |-> MapSet(accessGrants, <<patient_bns, provider>>,
               [expiry_block |-> expiry_block, record_scope |-> record_scope, granted_at |-> height,
                granted_by |-> sender, status |-> "active", max_accesses |-> max_accesses,
                access_count |-> 0, last_accessed |-> None]),
            status |-> activity.status]

\* mutant: a grant whose time has run out is stored as expired
revoke_access_marks_expired(sender, provider, patient_bns) ==
  IF MapGet(accessGrants, <<patient_bns, provider>>) = None THEN [result |-> ERR_GRANT_NOT_FOUND, grants |-> accessGrants]
  ELSE [result |-> OkTrue,
        grants |-> MapSet(accessGrants, <<patient_bns, provider>>,
           [accessGrants[<<patient_bns, provider>>] EXCEPT
              !.status = IF accessGrants[<<patient_bns, provider>>].expiry_block > height THEN "revoked" ELSE "expired"])]

revoke_access(sender, provider, patient_bns) ==
  IF MapGet(accessGrants, <<patient_bns, provider>>) = None THEN [result |-> ERR_GRANT_NOT_FOUND, grants |-> accessGrants]
  ELSE [result |-> OkTrue,
        grants |-> MapSet(accessGrants, <<patient_bns, provider>>,
           [accessGrants[<<patient_bns, provider>>] EXCEPT !.status = "revoked"])]

\* mutant: access also needs the granter's approved consent
has_access_needs_consent(provider, patient_bns) ==
  LET g == MapGet(accessGrants, <<patient_bns, provider>>)
  IN  IF g = None THEN ERR_GRANT_NOT_FOUND
      ELSE LET grant == g[1]
           IN  IF has_patient_consent(grant.granted_by, provider) # OkTrue THEN ERR_CONSENT_NOT_APPROVED
               ELSE IF /\ grant.status = "active"
                       /\ grant.expiry_block > height
                       /\ (IF grant.max_accesses # None THEN grant.access_count < grant.max_accesses[1] ELSE TRUE)
               THEN OkTrue
               ELSE IF height > grant.expiry_block THEN ERR_GRANT_EXPIRED
               ELSE ERR_INVALID_GRANT

\* mutant: the usage bound is off by one
has_access_off_by_one(provider, patient_bns) ==
  LET g == MapGet(accessGrants, <<patient_bns, provider>>)
  IN  IF g = None THEN ERR_GRANT_NOT_FOUND
      ELSE LET grant == g[1]
           IN  IF /\ grant.status = "active"
                  /\ grant.expiry_block > height
                  /\ (IF grant.max_accesses # None THEN grant.access_count <= grant.max_accesses[1] ELSE TRUE)
               THEN OkTrue
               ELSE IF height > grant.expiry_block THEN ERR_GRANT_EXPIRED
               ELSE ERR_INVALID_GRANT

\* mutant: the stored status is not looked at
has_access_ignores_status(provider, patient_bns) ==
  LET g == MapGet(accessGrants, <<patient_bns, provider>>)
  IN  IF g = None THEN ERR_GRANT_NOT_FOUND
      ELSE LET grant == g[1]
           IN  IF /\ grant.expiry_block > height
                  /\ (IF grant.max_accesses # None THEN grant.access_count < grant.max_accesses[1] ELSE TRUE)
               THEN OkTrue
               ELSE IF height > grant.expiry_block THEN ERR_GRANT_EXPIRED
               ELSE ERR_INVALID_GRANT

\* mutant: a grant that stays usable after its expiry block
has_access_ignores_expiry(provider, patient_bns) ==
  LET g == MapGet(accessGrants, <<patient_bns, provider>>)
  IN  IF g = None THEN ERR_GRANT_NOT_FOUND
      ELSE IF /\ g[1].status = "active"
              /\ (g[1].max_accesses = None \/ g[1].access_count < g[1].max_accesses[1])
           THEN OkTrue
           ELSE ERR_INVALID_GRANT

has_access(provider, patient_bns) ==
  LET g == MapGet(accessGrants, <<patient_bns, provider>>)
  IN  IF g = None THEN ERR_GRANT_NOT_FOUND
      ELSE LET grant == g[1]
           IN  IF /\ grant.status = "active"
                  /\ grant.expiry_block > height
                  /\ (IF grant.max_accesses # None THEN grant.access_count < grant.max_accesses[1] ELSE TRUE)
               THEN OkTrue
               ELSE IF height > grant.expiry_block THEN ERR_GRANT_EXPIRED
               ELSE ERR_INVALID_GRANT

\* mutant: the provider's activity is not recorded
use_access_without_activity(sender, provider, patient_bns) ==
  LET unchanged == [grants |-> accessGrants, status |-> providerStatus]
  IN  IF has_access(provider, patient_bns) # OkTrue THEN [result |-> has_access(provider, patient_bns)] @@ unchanged
      ELSE [result |-> OkTrue,
            grants |-> MapSet(accessGrants, <<patient_bns, provider>>,
               [accessGrants[<<patient_bns, provider>>] EXCEPT
                   !.access_count = accessGrants[<<patient_bns, provider>>].access_count + 1,
                   !.last_accessed = Some(height)]),
            status |-> providerStatus]

\* mutant: a use that only requires the grant to exist
use_access_of_any_grant(sender, provider, patient_bns) ==
  LET unchanged == [grants |-> accessGrants, status |-> providerStatus]
      activity == record_provider_activity(ACCESS_CONTROL, provider)
  IN  IF MapGet(accessGrants, <<patient_bns, provider>>) = None THEN [result |-> ERR_GRANT_NOT_FOUND] @@ unchanged
      ELSE IF activity.result # OkTrue THEN [result |-> activity.result] @@ unchanged
      ELSE [result |-> OkTrue,
            grants |-> MapSet(accessGrants, <<patient_bns, provider>>,
               [accessGrants[<<patient_bns, provider>>] EXCEPT
                   !.access_count = accessGrants[<<patient_bns, provider>>].access_count + 1,
                   !.last_accessed = Some(height)]),
            status |-> activity.status]

use_access(sender, provider, patient_bns) ==
  LET unchanged == [grants |-> accessGrants, status |-> providerStatus]
      activity == record_provider_activity(ACCESS_CONTROL, provider)
  IN  IF has_access(provider, patient_bns) # OkTrue THEN [result |-> has_access(provider, patient_bns)] @@ unchanged
      ELSE IF activity.result # OkTrue THEN [result |-> activity.result] @@ unchanged
      ELSE [result |-> OkTrue,
            grants |-> MapSet(accessGrants, <<patient_bns, provider>>,
               [accessGrants[<<patient_bns, provider>>] EXCEPT
                   !.access_count = accessGrants[<<patient_bns, provider>>].access_count + 1,
                   !.last_accessed = Some(height)]),
            status |-> activity.status]

get_access_grant(provider, patient_bns) == MapGet(accessGrants, <<patient_bns, provider>>)

has_record_scope_access(provider, patient_bns, record_type) ==
  LET g == MapGet(accessGrants, <<patient_bns, provider>>)
  IN  IF g = None THEN ERR_GRANT_NOT_FOUND
      ELSE IF /\ g[1].status = "active"
              /\ g[1].expiry_block > height
              /\ (\E i \in 1..Len(g[1].record_scope) : g[1].record_scope[i] = record_type)
           THEN OkTrue
           ELSE ERR_INVALID_GRANT

\* ------------------------------------------------------ PatientIdentity
\* the names the BNS resolver knows, with the info verifyBNSName returns
BnsRegistry == [n \in {"test.btc"} |-> [owner |-> "SP1ABC123DEF456", blockHeight |-> 12345]]

Registrations ==
  { [bnsName |-> "test.btc", principal |-> "SP1ABC123DEF456"],
    [bnsName |-> "test.btc", principal |-> "SP2OTHER"],
    [bnsName |-> "nonexistent.btc", principal |-> "SP1ABC123DEF456"] }

CallIds == 1..MaxCalls

NotCalled == [pc |-> "not-called", registration |-> None, verification |-> None, existingProfile |-> None, error |-> ""]

\* resolverAnswers = FALSE is a resolver that throws (network or API error)
verifyIdentity(bnsName, principal, resolverAnswers) ==
  IF ~resolverAnswers THEN [isValid |-> FALSE, bnsInfo |-> None, error |-> "Identity verification failed"]
  ELSE IF bnsName \notin DOMAIN BnsRegistry THEN [isValid |-> FALSE, bnsInfo |-> None, error |-> "BNS name not found"]
  ELSE IF BnsRegistry[bnsName].owner # principal
       THEN [isValid |-> FALSE, bnsInfo |-> Some(BnsRegistry[bnsName]), error |-> "Principal does not own BNS name"]
  ELSE [isValid |-> TRUE, bnsInfo |-> Some(BnsRegistry[bnsName]), error |-> ""]

getPatientProfile(bnsName) == MapGet(patientProfiles, bnsName)

\* the key pair is random: each generation yields the key of its own call
generateKeyPair(c, bnsName) == [publicKey |-> <<"publicKey", c>>, keyHash |-> <<"keyHash", c>>]

\* registerPatient is called: it runs up to its first await, inside verifyIdentity
RegisterPatientCalled(c) ==
  /\ registerPatientCalls[c].pc = "not-called"
  /\ \E registration \in Registrations :
       registerPatientCalls' = [registerPatientCalls EXCEPT ![c] = [NotCalled EXCEPT !.pc = "verifyIdentity", !.registration = Some(registration)]]
  /\ UNCHANGED <<patientProfiles, height, registryVars, ledgerVars, auditVars, last>>

\* the verification resolves: an invalid identity rejects; otherwise
\* getPatientProfile reads the map now and the call awaits its promise
VerifyIdentityResolved(c) ==
  /\ registerPatientCalls[c].pc = "verifyIdentity"
  /\ \E resolverAnswers \in BOOLEAN :
       \E v \in {verifyIdentity(registerPatientCalls[c].registration[1].bnsName,
                                registerPatientCalls[c].registration[1].principal, resolverAnswers)} :
         registerPatientCalls' = [registerPatientCalls EXCEPT ![c] =
            IF ~v.isValid
            THEN [@ EXCEPT !.pc = "rejected", !.verification = Some(v), !.error = v.error]
            ELSE [@ EXCEPT !.pc = "getPatientProfile", !.verification = Some(v),
                           !.existingProfile = getPatientProfile(registerPatientCalls[c].registration[1].bnsName)]]
  /\ UNCHANGED <<patientProfiles, height, registryVars, ledgerVars, auditVars, last>>

\* the lookup resolves: an existing profile rejects; otherwise
\* generateKeyPair is called and the call awaits the key pair
GetPatientProfileResolved(c) ==
  /\ registerPatientCalls[c].pc = "getPatientProfile"
  /\ registerPatientCalls' = [registerPatientCalls EXCEPT ![c] =
        IF registerPatientCalls[c].existingProfile # None
        THEN [@ EXCEPT !.pc = "rejected", !.error = "already registered"]
        ELSE [@ EXCEPT !.pc = "generateKeyPair"]]
  /\ UNCHANGED <<patientProfiles, height, registryVars, ledgerVars, auditVars, last>>

\* the key pair resolves: the profile is built and stored, the call resolves
GenerateKeyPairResolved(c) ==
  /\ registerPatientCalls[c].pc = "generateKeyPair"
  /\ \E keyPair \in {generateKeyPair(c, registerPatientCalls[c].registration[1].bnsName)} :
       patientProfiles' = MapSet(patientProfiles, registerPatientCalls[c].registration[1].bnsName,
          [bnsName |-> registerPatientCalls[c].registration[1].bnsName,
           publicKey |-> keyPair.publicKey,
           registrationBlock |-> registerPatientCalls[c].verification[1].bnsInfo[1].blockHeight,
           encryptionKeyHash |-> keyPair.keyHash])
  /\ registerPatientCalls' = [registerPatientCalls EXCEPT ![c] = [@ EXCEPT !.pc = "resolved"]]
  /\ UNCHANGED <<height, registryVars, ledgerVars, auditVars, last>>

\* ------------------------------------------------------------ transactions
\* last: the most recent committed transaction, i.e. the most recent call that
\* returned (ok true); a call that returns an error is rolled back and leaves
\* every variable as it was
Committed(result, op, sender, provider, patient) ==
  IF result = OkTrue THEN [op |-> op, sender |-> sender, provider |-> provider, patient |-> patient] ELSE last

Init ==
  /\ height = 1
  /\ providerCredentials = EmptyMap
  /\ providerStatus = EmptyMap
  /\ validCredentialTypes = EmptyMap
  /\ credentialVerifications = EmptyMap
  /\ accessGrants = EmptyMap
  /\ patientConsents = EmptyMap
  /\ auditEvents = EmptyMap
  /\ patientEventIndex = EmptyMap
  /\ patientEventCount = EmptyMap
  /\ last = [op |-> "deploy", sender |-> CONTRACT_OWNER, provider |-> "", patient |-> ""]
  /\ patientProfiles = EmptyMap
  /\ registerPatientCalls = [c \in CallIds |-> NotCalled]

\* the execution environment moves the chain to a later block
AdvanceHeight ==
  /\ \E h \in Heights : h > height /\ height' = h
  /\ UNCHANGED <<registryVars, ledgerVars, auditVars, last, identityVars>>

RegisterProvider ==
  \E sender \in Senders, provider \in Providers, license_number \in Licenses, credential_types \in TypeLists,
     d \in CredentialExpiryOffsets, issuing_authority \in Authorities, credential_hash \in CredentialHashes :
    \E r \in {register_provider(sender, provider, license_number, credential_types, height + d, issuing_authority, credential_hash)} :
        /\ providerCredentials' = r.credentials
        /\ credentialVerifications' = r.verifications
        /\ providerStatus' = r.status
        /\ last' = Committed(r.result, "register-provider", sender, provider, "")
        /\ UNCHANGED <<height, validCredentialTypes, ledgerVars, auditVars, identityVars>>

UpdateProviderCredentials ==
  \E sender \in Senders, provider \in Providers, d \in CredentialExpiryOffsets, new_credential_types \in TypeLists :
    \E r \in {update_provider_credentials(sender, provider, height + d, new_credential_types)} :
        /\ providerCredentials' = r.credentials
        /\ last' = Committed(r.result, "update-provider-credentials", sender, provider, "")
        /\ UNCHANGED <<height, providerStatus, validCredentialTypes, credentialVerifications, ledgerVars, auditVars, identityVars>>

SuspendProvider ==
  \E sender \in Senders, provider \in Providers, reason \in Reasons :
    \E r \in {suspend_provider(sender, provider, reason)} :
        /\ providerCredentials' = r.credentials
        /\ providerStatus' = r.status
        /\ last' = Committed(r.result, "suspend-provider", sender, provider, "")
        /\ UNCHANGED <<height, validCredentialTypes, credentialVerifications, ledgerVars, auditVars, identityVars>>

ReactivateProvider ==
  \E sender \in Senders, provider \in Providers :
    \E r \in {reactivate_provider(sender, provider)} :
        /\ providerCredentials' = r.credentials
        /\ providerStatus' = r.status
        /\ last' = Committed(r.result, "reactivate-provider", sender, provider, "")
        /\ UNCHANGED <<height, validCredentialTypes, credentialVerifications, ledgerVars, auditVars, identityVars>>

AddCredentialType ==
  \E sender \in Senders, credential_type \in CredentialTypes, description \in Descriptions, required_for_access \in {TRUE} :
    \E r \in {add_credential_type(sender, credential_type, description, required_for_access)} :
        /\ validCredentialTypes' = r.types
        /\ last' = Committed(r.result, "add-credential-type", sender, "", "")
        /\ UNCHANGED <<height, providerCredentials, providerStatus, credentialVerifications, ledgerVars, auditVars, identityVars>>

\* a transaction that calls record-provider-activity directly or through
\* some contract other than access-control
RecordProviderActivity ==
  \E sender \in Senders, provider \in Providers :
    \E contract_caller \in {sender} \cup OtherContracts :
      \E r \in {record_provider_activity(contract_caller, provider)} :
          /\ providerStatus' = r.status
          /\ last' = Committed(r.result, "record-provider-activity", sender, provider, "")
          /\ UNCHANGED <<height, providerCredentials, validCredentialTypes, credentialVerifications, ledgerVars, auditVars, identityVars>>

\* a transaction that calls log-event directly or through some contract
\* other than access-control (access-control itself never calls log-event)
LogEvent ==
  \E sender \in Senders, event_id \in EventIds, patient_bns \in PatientBns, provider \in Providers,
     event_type \in EventTypes, record_scope \in {<<"lab-results">>} :
    \E contract_caller \in {sender} \cup OtherContracts :
      \E r \in {log_event(contract_caller, event_id, patient_bns, provider, event_type, record_scope, None)} :
          /\ auditEvents' = r.events
          /\ patientEventIndex' = r.index
          /\ patientEventCount' = r.count
          /\ last' = Committed(r.result, "log-event", sender, provider, patient_bns)
          /\ UNCHANGED <<height, registryVars, ledgerVars, identityVars>>

ApproveProviderAccess ==
  \E sender \in Senders, provider \in Providers, record_scope \in Scopes, expires_at \in {None, Some(height), Some(height + 1)} :
    \E r \in {approve_provider_access(sender, provider, record_scope, expires_at)} :
        /\ patientConsents' = r.consents
        /\ last' = Committed(r.result, "approve-provider-access", sender, provider, sender)
        /\ UNCHANGED <<height, registryVars, accessGrants, auditVars, identityVars>>

RevokeProviderConsent ==
  \E sender \in Senders, provider \in Providers :
    \E r \in {revoke_provider_consent(sender, provider)} :
        /\ patientConsents' = r.consents
        /\ last' = Committed(r.result, "revoke-provider-consent", sender, provider, sender)
        /\ UNCHANGED <<height, registryVars, accessGrants, auditVars, identityVars>>

\* cap on the registry's per-provider activity counter
RoomForActivity(provider, result) ==
  (result = OkTrue) => providerStatus[provider].access_count < MaxProviderAccesses

GrantAccess ==
  \E sender \in Senders, provider \in Providers, patient_bns \in PatientBns, d \in GrantExpiryOffsets,
     record_scope \in Scopes, max_accesses \in MaxAccessesChoices :
    \E r \in {grant_access(sender, provider, patient_bns, height + d, record_scope, max_accesses)} :
        /\ RoomForActivity(provider, r.result)
        /\ accessGrants' = r.grants
        /\ providerStatus' = r.status
        /\ last' = Committed(r.result, "grant-access", sender, provider, patient_bns)
        /\ UNCHANGED <<height, providerCredentials, validCredentialTypes, credentialVerifications, patientConsents, auditVars, identityVars>>

RevokeAccess ==
  \E sender \in Senders, provider \in Providers, patient_bns \in PatientBns :
    \E r \in {revoke_access(sender, provider, patient_bns)} :
        /\ accessGrants' = r.grants
        /\ last' = Committed(r.result, "revoke-access", sender, provider, patient_bns)
        /\ UNCHANGED <<height, registryVars, patientConsents, auditVars, identityVars>>

UseAccess ==
  \E sender \in Senders, provider \in Providers, patient_bns \in PatientBns :
    \E r \in {use_access(sender, provider, patient_bns)} :
        /\ RoomForActivity(provider, r.result)
        /\ accessGrants' = r.grants
        /\ providerStatus' = r.status
        /\ last' = Committed(r.result, "use-access", sender, provider, patient_bns)
        /\ UNCHANGED <<height, providerCredentials, validCredentialTypes, credentialVerifications, patientConsents, auditVars, identityVars>>

Next ==
  \/ AdvanceHeight
  \/ RegisterProvider
  \/ UpdateProviderCredentials
  \/ SuspendProvider
  \/ ReactivateProvider
  \/ AddCredentialType
  \/ RecordProviderActivity
  \/ LogEvent
  \/ GrantAccess
  \/ RevokeAccess
  \/ UseAccess

Spec == Init /\ [][Next]_vars

\* ---------------------------------------------- the audit-trail contract
\* The audit-trail contract taken on its own: log-event admits the contract
\* deployed as .access-control, so its reachable states are those that calls
\* arriving from that contract produce.
AuditEventIds == EventIds \cup {"event-2", "event-3"}
AuditPatients == PatientBns \cup {"patient-2"}
AuditDetails == {None, Some("routine access")}

LogEventByLedger ==
  \E sender \in Senders, event_id \in AuditEventIds, patient_bns \in AuditPatients, provider \in Providers,
     event_type \in EventTypes, record_scope \in {<<"lab-results">>}, details \in AuditDetails :
    \E r \in {log_event(ACCESS_CONTROL, event_id, patient_bns, provider, event_type, record_scope, details)} :
        /\ auditEvents' = r.events
        /\ patientEventIndex' = r.index
        /\ patientEventCount' = r.count
        /\ last' = Committed(r.result, "log-event", sender, provider, patient_bns)
        /\ UNCHANGED <<height, registryVars, ledgerVars, identityVars>>

NextAudit ==
  \/ AdvanceHeight
  \/ LogEvent
  \/ LogEventByLedger

SpecAudit == Init /\ [][NextAudit]_vars

\* ------------------------------------------------------- patient consent
\* The consent functions of the access-control contract over the block
\* heights: they read and write patient-consents only.
NextConsent ==
  \/ AdvanceHeight
  \/ ApproveProviderAccess
  \/ RevokeProviderConsent

SpecConsent == Init /\ [][NextConsent]_vars

\* The access-control contract with its consent functions and its grant
\* functions within one block, and of the registry what a grant needs: a
\* credential type and a registration.
NextLedger ==
  \/ AddCredentialType
  \/ RegisterProvider
  \/ ApproveProviderAccess
  \/ RevokeProviderConsent
  \/ GrantAccess
  \/ RevokeAccess
  \/ UseAccess

SpecLedger == Init /\ [][NextLedger]_vars

\* PatientIdentity on its own: registerPatient calls whose continuations
\* interleave at their await points
NextPatient ==
  \E c \in CallIds :
    \/ RegisterPatientCalled(c)
    \/ VerifyIdentityResolved(c)
    \/ GetPatientProfileResolved(c)
    \/ GenerateKeyPairResolved(c)

SpecPatient == Init /\ [][NextPatient]_vars

\* grants over time: the chain keeps producing blocks, so a height step that
\* is possible is eventually taken
NextExpiry ==
  \/ AdvanceHeight
  \/ AddCredentialType
  \/ RegisterProvider
  \/ GrantAccess
  \/ RevokeAccess
  \/ UseAccess

SpecExpiry == Init /\ [][NextExpiry]_vars /\ WF_vars(AdvanceHeight)

\* ------------------------------------------------------------ properties
Principals == Senders \cup {"stranger"}
DirectCallers == Principals \cup OtherContracts
Registered(provider) == provider \in DOMAIN providerCredentials /\ provider \in DOMAIN providerStatus
Suspended(provider) == provider \in DOMAIN providerStatus /\ providerStatus[provider].status = "suspended"
GrantKeys == DOMAIN accessGrants

\* C1: record-provider-activity called by any identity other than the
\* access-control contract (the registry administrator and the provider itself
\* included) returns ERR-NOT-AUTHORIZED (u300) and leaves provider-status of
\* every provider as it was.
C1_RecordActivityGated ==
  \A contract_caller \in DirectCallers \cup Providers, provider \in Providers :
    contract_caller # ACCESS_CONTROL =>
      /\ record_provider_activity(contract_caller, provider).result = ERR_NOT_AUTHORIZED
      /\ record_provider_activity(contract_caller, provider).status = providerStatus

C1_Witness ==
  /\ Registered("p1")
  /\ providerStatus["p1"].access_count > 0
  /\ last.op = "use-access"
  /\ record_provider_activity(CONTRACT_OWNER, "p1").result = ERR_NOT_AUTHORIZED
  /\ record_provider_activity("p1", "p1").result = ERR_NOT_AUTHORIZED

\* C2: log-event called by any identity other than the access-control contract
\* returns ERR-UNAUTHORIZED-LOGGER (u201) whatever its other arguments are, and
\* leaves audit-events, patient-event-index and patient-event-count unchanged.
C2_LogEventGated ==
  \A contract_caller \in DirectCallers, event_id \in EventIds, patient_bns \in PatientBns,
     provider \in Providers, event_type \in EventTypes, record_scope \in Scopes :
    contract_caller # ACCESS_CONTROL =>
      \E r \in {log_event(contract_caller, event_id, patient_bns, provider, event_type, record_scope, None)} :
        /\ r.result = ERR_UNAUTHORIZED_LOGGER
        /\ r.events = auditEvents
        /\ r.index = patientEventIndex
        /\ r.count = patientEventCount

C2_Witness ==
  /\ last.op = "grant-access"
  /\ <<"patient-1", "p1">> \in GrantKeys
  /\ log_event(CONTRACT_OWNER, "event-1", "patient-1", "p1", "access_granted", <<"lab-results">>, None).result = ERR_UNAUTHORIZED_LOGGER
  /\ auditEvents = EmptyMap

\* C3: every mutating entry point checks the caller against an allow-list,
\* grant-access, use-access and revoke-access included: no call of these three
\* succeeds for every possible caller.
C3_LedgerChecksCaller ==
  \A provider \in Providers, patient_bns \in PatientBns :
    /\ ~(\A sender \in Principals : revoke_access(sender, provider, patient_bns).result = OkTrue)
    /\ ~(\A sender \in Principals : use_access(sender, provider, patient_bns).result = OkTrue)
    /\ \A d \in GrantExpiryOffsets, record_scope \in Scopes, max_accesses \in MaxAccessesChoices :
         ~(\A sender \in Principals :
              grant_access(sender, provider, patient_bns, height + d, record_scope, max_accesses).result = OkTrue)

\* C4: register-provider, update-provider-credentials, suspend-provider,
\* reactivate-provider and add-credential-type return ERR-NOT-AUTHORIZED (u300)
\* for every caller other than the contract owner, whatever the other
\* arguments are (so before any other check), and leave provider-credentials,
\* provider-status, valid-credential-types and credential-verifications unchanged.
C4_AdminOnly ==
  \A sender \in Principals \ {CONTRACT_OWNER}, provider \in Providers :
    /\ \A license_number \in Licenses, credential_types \in TypeLists, d \in CredentialExpiryOffsets,
          issuing_authority \in Authorities, credential_hash \in CredentialHashes :
         \E r \in {register_provider(sender, provider, license_number, credential_types, height + d, issuing_authority, credential_hash)} :
           /\ r.result = ERR_NOT_AUTHORIZED
           /\ r.credentials = providerCredentials
           /\ r.status = providerStatus
           /\ r.verifications = credentialVerifications
    /\ \A d \in CredentialExpiryOffsets, new_credential_types \in TypeLists :
         \E r \in {update_provider_credentials(sender, provider, height + d, new_credential_types)} :
           r.result = ERR_NOT_AUTHORIZED /\ r.credentials = providerCredentials
    /\ \A reason \in Reasons :
         \E r \in {suspend_provider(sender, provider, reason)} :
           r.result = ERR_NOT_AUTHORIZED /\ r.credentials = providerCredentials /\ r.status = providerStatus
    /\ \E r \in {reactivate_provider(sender, provider)} :
         r.result = ERR_NOT_AUTHORIZED /\ r.credentials = providerCredentials /\ r.status = providerStatus
    /\ \A credential_type \in CredentialTypes, description \in Descriptions :
         \E r \in {add_credential_type(sender, credential_type, description, TRUE)} :
           r.result = ERR_NOT_AUTHORIZED /\ r.types = validCredentialTypes

C4_Witness ==
  /\ Suspended("p1")
  /\ last.op = "suspend-provider"
  /\ reactivate_provider("p1", "p1").result = ERR_NOT_AUTHORIZED
  /\ register_provider("p1", "p1", "MD123456", <<"medical-license", "dea-registration">>, height, "State Medical Board", "").result = ERR_NOT_AUTHORIZED

\* C5: grant-access succeeds only in a state where verify-provider succeeds
\* (provider registered, verification-status verified, expires-at greater than
\* the current height, status active); in every other state it returns
\* ERR-PROVIDER-NOT-VERIFIED (u104) whatever the other arguments are, and
\* writes no access grant.
C5_GrantRequiresVerifiedProvider ==
  \A sender \in Principals, provider \in Providers, patient_bns \in PatientBns, d \in GrantExpiryOffsets,
     record_scope \in Scopes, max_accesses \in MaxAccessesChoices :
    \E r \in {grant_access(sender, provider, patient_bns, height + d, record_scope, max_accesses)} :
      /\ r.result = OkTrue =>
           /\ verify_provider(provider) = OkTrue
           /\ Registered(provider)
           /\ providerCredentials[provider].verification_status = "verified"
           /\ providerCredentials[provider].expires_at > height
           /\ providerStatus[provider].status = "active"
      /\ verify_provider(provider) # OkTrue =>
           /\ r.result = ERR_PROVIDER_NOT_VERIFIED
           /\ r.grants = accessGrants
           /\ r.status = providerStatus

C5_Witness ==
  /\ <<"patient-1", "p1">> \in GrantKeys
  /\ Suspended("p1")
  /\ last.op = "suspend-provider"
  /\ grant_access(CONTRACT_OWNER, "p1", "", height, <<>>, <<0>>).result = ERR_PROVIDER_NOT_VERIFIED

\* C6 as claimed: while a provider is suspended verify-provider returns
\* ERR-PROVIDER-SUSPENDED (u304) and every grant-access for it returns u104.
C6_SuspendedAlwaysReportsSuspended ==
  \A provider \in Providers :
    Suspended(provider) =>
      /\ verify_provider(provider) = ERR_PROVIDER_SUSPENDED
      /\ \A sender \in Principals, patient_bns \in PatientBns, d \in GrantExpiryOffsets,
            record_scope \in Scopes, max_accesses \in MaxAccessesChoices :
           grant_access(sender, provider, patient_bns, height + d, record_scope, max_accesses).result = ERR_PROVIDER_NOT_VERIFIED

C6_SuspendedState ==
  \A provider \in Providers :
    Suspended(provider) =>
      /\ verify_provider(provider) =
           (IF height > providerCredentials[provider].expires_at THEN ERR_CREDENTIALS_EXPIRED ELSE ERR_PROVIDER_SUSPENDED)
      /\ \A sender \in Principals, patient_bns \in PatientBns, d \in GrantExpiryOffsets,
            record_scope \in Scopes, max_accesses \in MaxAccessesChoices :
           \E r \in {grant_access(sender, provider, patient_bns, height + d, record_scope, max_accesses)} :
             r.result = ERR_PROVIDER_NOT_VERIFIED /\ r.grants = accessGrants

C6_SuspendedInterval ==
  \A provider \in Providers :
    /\ (last'.op = "suspend-provider" /\ last'.provider = provider /\ last' # last) => Suspended(provider)'
    /\ (~Suspended(provider) /\ Suspended(provider)') => (last'.op = "suspend-provider" /\ last'.provider = provider)
    /\ (Suspended(provider) /\ ~Suspended(provider)') => (last'.op = "reactivate-provider" /\ last'.provider = provider)

\* C6 (amended): from a successful suspend-provider until the next successful
\* reactivate-provider, verify-provider fails at every point, with
\* ERR-PROVIDER-SUSPENDED (u304) while the height has not passed expires-at and
\* with ERR-CREDENTIALS-EXPIRED (u303) once it has, and every grant-access
\* for the provider returns u104 and writes no grant.
C6_SuspendedUntilReactivated == ([]C6_SuspendedState) /\ [][C6_SuspendedInterval]_vars

C6_Witness ==
  /\ Suspended("p1")
  /\ height > providerCredentials["p1"].expires_at
  /\ verify_provider("p1") = ERR_CREDENTIALS_EXPIRED

\* C7: a provider that is suspended or whose credentials have expired has no
\* access: has-access and use-access fail for every patient, also for grants
\* made before the suspension or the expiry.
C7_SuspendedOrExpiredLosesAccess ==
  \A provider \in Providers, patient_bns \in PatientBns :
    (Registered(provider) /\ (Suspended(provider) \/ height >= providerCredentials[provider].expires_at)) =>
      /\ has_access(provider, patient_bns) # OkTrue
      /\ \A sender \in Principals : use_access(sender, provider, patient_bns).result # OkTrue

\* C8: every stored access grant has expiry-block > granted-at and
\* expiry-block - granted-at <= MAX-GRANT-DURATION.
C8_GrantDurationBounded ==
  \A k \in GrantKeys :
    /\ accessGrants[k].expiry_block > accessGrants[k].granted_at
    /\ accessGrants[k].expiry_block - accessGrants[k].granted_at <= MAX_GRANT_DURATION

C8_Witness ==
  /\ last.op = "grant-access"
  /\ \E k \in GrantKeys : accessGrants[k].expiry_block - accessGrants[k].granted_at = MAX_GRANT_DURATION - 1
  /\ height > 1

Exhausted(k) ==
  /\ accessGrants[k].max_accesses # None
  /\ accessGrants[k].access_count = accessGrants[k].max_accesses[1]

C9_ExhaustedState ==
  \A k \in GrantKeys :
    /\ accessGrants[k].max_accesses # None =>
         (accessGrants[k].max_accesses[1] >= 1 /\ accessGrants[k].access_count <= accessGrants[k].max_accesses[1])
    /\ (Exhausted(k) /\ accessGrants[k].expiry_block > height) =>
         /\ has_access(k[2], k[1]) = ERR_INVALID_GRANT
         /\ \A sender \in Principals :
              \E r \in {use_access(sender, k[2], k[1])} :
                r.result = ERR_INVALID_GRANT /\ r.grants = accessGrants /\ r.status = providerStatus

C9_UseKeepsStatus ==
  \A k \in GrantKeys :
    (k \in DOMAIN accessGrants' /\ accessGrants'[k].access_count = accessGrants[k].access_count + 1) =>
      /\ last'.op = "use-access"
      /\ accessGrants[k].status = "active"
      /\ accessGrants'[k].status = "active"
      /\ accessGrants'[k].max_accesses = accessGrants[k].max_accesses
      /\ accessGrants'[k].expiry_block > height'

\* C9: the access count of a grant made with max-accesses n (n >= 1) grows by
\* one per successful use-access and never passes n; the use that brings it
\* to n leaves the stored status active, and while the count is n and
\* expiry-block is still in the future has-access returns ERR-INVALID-GRANT
\* (u101) and use-access fails with the same error, changing nothing.
C9_UsageExhaustion == ([]C9_ExhaustedState) /\ [][C9_UseKeepsStatus]_vars

C9_Witness ==
  /\ last.op = "use-access"
  /\ <<"patient-1", "p1">> \in GrantKeys
  /\ accessGrants[<<"patient-1", "p1">>].max_accesses = Some(2)
  /\ accessGrants[<<"patient-1", "p1">>].access_count = 2
  /\ accessGrants[<<"patient-1", "p1">>].status = "active"
  /\ accessGrants[<<"patient-1", "p1">>].expiry_block > height
  /\ has_access("p1", "patient-1") = ERR_INVALID_GRANT

C10_RevokedState ==
  \A k \in GrantKeys :
    accessGrants[k].status = "revoked" =>
      /\ has_access(k[2], k[1]) \in {ERR_INVALID_GRANT, ERR_GRANT_EXPIRED}
      /\ \A sender \in Principals :
           \E r \in {use_access(sender, k[2], k[1])} :
             r.result = has_access(k[2], k[1]) /\ r.grants = accessGrants /\ r.status = providerStatus

C10_RevokedInterval ==
  \A provider \in Providers, patient_bns \in PatientBns :
    /\ (last'.op = "revoke-access" /\ last'.provider = provider /\ last'.patient = patient_bns /\ last' # last) =>
         (<<patient_bns, provider>> \in DOMAIN accessGrants' /\ accessGrants'[<<patient_bns, provider>>].status = "revoked")
    /\ (/\ <<patient_bns, provider>> \in GrantKeys
        /\ accessGrants[<<patient_bns, provider>>].status = "revoked"
        /\ accessGrants'[<<patient_bns, provider>>].status # "revoked") =>
         (last'.op = "grant-access" /\ last'.provider = provider /\ last'.patient = patient_bns)

\* C10: from a successful revoke-access until the next successful grant-access
\* for the same pair, has-access and use-access fail at every point, whatever
\* time or usage budget remains, and use-access changes nothing.
C10_RevokedUntilRegranted == ([]C10_RevokedState) /\ [][C10_RevokedInterval]_vars

C10_Witness ==
  /\ last.op = "revoke-access"
  /\ <<"patient-1", "p1">> \in GrantKeys
  /\ accessGrants[<<"patient-1", "p1">>].status = "revoked"
  /\ accessGrants[<<"patient-1", "p1">>].expiry_block > height + 1
  /\ accessGrants[<<"patient-1", "p1">>].max_accesses = Some(2)
  /\ accessGrants[<<"patient-1", "p1">>].access_count = 1
  /\ verify_provider("p1") = OkTrue
  /\ has_access("p1", "patient-1") = ERR_INVALID_GRANT

\* a step that commits a grant-access or a use-access for the pair k: the
\* grant is new or rewritten and is active afterwards
LedgerWrote(k) ==
  /\ k \in DOMAIN accessGrants'
  /\ accessGrants'[k].status = "active"
  /\ (k \in DOMAIN accessGrants => accessGrants'[k] # accessGrants[k])

C11_Logged ==
  \A k \in DOMAIN accessGrants' :
    LedgerWrote(k) =>
      /\ providerStatus'[k[2]].access_count = providerStatus[k[2]].access_count + 1
      /\ k[1] \in DOMAIN patientEventCount'
      /\ patientEventCount'[k[1]].count = get_patient_audit_trail(k[1]) + 1
      /\ \E event_id \in DOMAIN auditEvents' \ DOMAIN auditEvents : auditEvents'[event_id].patient_bns = k[1]

\* C11: every step that commits a grant-access or a use-access also records
\* the provider's activity in the registry and appends one audit event for
\* the patient, whose event count grows by one.
C11_GrantAndUseAreLogged == [][C11_Logged]_vars

\* C12: log-event called by the access-control contract with an event id that
\* is already stored returns ERR-INVALID-EVENT (u200) whatever the other
\* arguments are, and the stored event, every index entry and every patient's
\* event count are unchanged.
C12_DuplicateEventRejected ==
  \A event_id \in DOMAIN auditEvents, patient_bns \in AuditPatients, provider \in Providers,
     event_type \in EventTypes, record_scope \in Scopes, details \in AuditDetails :
    \E r \in {log_event(ACCESS_CONTROL, event_id, patient_bns, provider, event_type, record_scope, details)} :
      /\ r.result = ERR_INVALID_EVENT
      /\ r.events = auditEvents
      /\ r.index = patientEventIndex
      /\ r.count = patientEventCount

C12_Witness ==
  /\ last.op = "log-event"
  /\ "event-1" \in DOMAIN auditEvents
  /\ auditEvents["event-1"].patient_bns = "patient-1"
  /\ get_patient_audit_trail("patient-1") = 1
  /\ get_patient_audit_trail("patient-2") = 0
  /\ log_event(ACCESS_CONTROL, "event-1", "patient-2", "p1", "access_granted", <<"lab-results">>, None).result = ERR_INVALID_EVENT

EventsOf(patient_bns) == {event_id \in DOMAIN auditEvents : auditEvents[event_id].patient_bns = patient_bns}
PositionsOf(patient_bns) == {key[2] : key \in {k \in DOMAIN patientEventIndex : k[1] = patient_bns}}

\* C13: for every patient with event count n (0 if absent) the index is
\* defined for exactly the sequence numbers 0..n-1, each indexed event id
\* names a stored event of that patient, no event id is indexed twice, and n
\* is the number of stored events of the patient.
C13_IndexConsistent ==
  /\ \A key \in DOMAIN patientEventIndex : key[1] \in AuditPatients
  /\ \A event_id \in DOMAIN auditEvents : auditEvents[event_id].patient_bns \in AuditPatients
  /\ \A patient_bns \in AuditPatients :
       /\ PositionsOf(patient_bns) = 0..(get_patient_audit_trail(patient_bns) - 1)
       /\ \A i \in PositionsOf(patient_bns) :
            /\ get_patient_event_id(patient_bns, i)[1].event_id \in DOMAIN auditEvents
            /\ auditEvents[get_patient_event_id(patient_bns, i)[1].event_id].patient_bns = patient_bns
       /\ Cardinality(EventsOf(patient_bns)) = get_patient_audit_trail(patient_bns)
  /\ \A k1, k2 \in DOMAIN patientEventIndex :
       patientEventIndex[k1].event_id = patientEventIndex[k2].event_id => k1 = k2

C13_Witness ==
  /\ get_patient_audit_trail("patient-1") = 2
  /\ get_patient_audit_trail("patient-2") = 1
  /\ get_patient_event_id("patient-1", 1) # None
  /\ get_patient_event_id("patient-2", 0) = Some([event_id |-> "event-2"])
  /\ get_patient_event_id("patient-1", 2) = None

C14_AppendOnly ==
  /\ \A event_id \in DOMAIN auditEvents :
       event_id \in DOMAIN auditEvents' /\ auditEvents'[event_id] = auditEvents[event_id]
  /\ \A key \in DOMAIN patientEventIndex :
       key \in DOMAIN patientEventIndex' /\ patientEventIndex'[key] = patientEventIndex[key]
  /\ \A patient_bns \in DOMAIN patientEventCount :
       /\ patient_bns \in DOMAIN patientEventCount'
       /\ patientEventCount'[patient_bns].count >= patientEventCount[patient_bns].count
  /\ \A new \in DOMAIN patientEventIndex' \ DOMAIN patientEventIndex :
       \A old \in DOMAIN patientEventIndex : old[1] = new[1] => old[2] < new[2]

\* C14: no step changes or removes a stored audit event or an index entry,
\* no patient's event count decreases, and an event logged later for a
\* patient gets a larger sequence number than every event logged before.
C14_AuditLogAppendOnly == [][C14_AppendOnly]_vars

C14_Witness ==
  /\ get_patient_event_id("patient-1", 0) = Some([event_id |-> "event-3"])
  /\ get_patient_event_id("patient-1", 1) = Some([event_id |-> "event-1"])
  /\ auditEvents["event-3"].block_height < auditEvents["event-1"].block_height
  /\ height > auditEvents["event-1"].block_height

RegistryErrors == {ERR_NOT_AUTHORIZED, ERR_PROVIDER_NOT_FOUND, ERR_INVALID_CREDENTIALS, ERR_CREDENTIALS_EXPIRED,
                   ERR_PROVIDER_SUSPENDED, ERR_INVALID_CREDENTIAL_TYPE, ERR_PROVIDER_ALREADY_EXISTS, ERR_INVALID_EXPIRY_DATE}
LedgerErrors == {ERR_INVALID_GRANT, ERR_GRANT_EXPIRED, ERR_GRANT_NOT_FOUND, ERR_PROVIDER_NOT_VERIFIED,
                 ERR_INVALID_PATIENT_BNS, ERR_INVALID_SCOPE, ERR_CONSENT_NOT_FOUND, ERR_CONSENT_NOT_APPROVED,
                 ERR_INVALID_MAX_ACCESSES}
AuditErrors == {ERR_INVALID_EVENT, ERR_UNAUTHORIZED_LOGGER}

C15_RegistryCalls ==
  \A sender \in Principals, provider \in Providers \cup {"p2"} :
    /\ \A license_number \in Licenses, credential_types \in TypeLists, d \in CredentialExpiryOffsets,
          issuing_authority \in Authorities, credential_hash \in CredentialHashes :
         \E r \in {register_provider(sender, provider, license_number, credential_types, height + d, issuing_authority, credential_hash)} :
           /\ r.result \in {OkTrue} \cup RegistryErrors
           /\ r.result # OkTrue =>
                (r.credentials = providerCredentials /\ r.status = providerStatus /\ r.verifications = credentialVerifications)
    /\ \A d \in CredentialExpiryOffsets, new_credential_types \in TypeLists :
         \E r \in {update_provider_credentials(sender, provider, height + d, new_credential_types)} :
           /\ r.result \in {OkTrue} \cup RegistryErrors
           /\ r.result # OkTrue => r.credentials = providerCredentials
    /\ \A reason \in Reasons :
         \E r \in {suspend_provider(sender, provider, reason)} :
           /\ r.result \in {OkTrue} \cup RegistryErrors
           /\ r.result # OkTrue => (r.credentials = providerCredentials /\ r.status = providerStatus)
    /\ \E r \in {reactivate_provider(sender, provider)} :
         /\ r.result \in {OkTrue} \cup RegistryErrors
         /\ r.result # OkTrue => (r.credentials = providerCredentials /\ r.status = providerStatus)
    /\ \A credential_type \in CredentialTypes \cup {"dea-registration"}, description \in Descriptions :
         \E r \in {add_credential_type(sender, credential_type, description, TRUE)} :
           /\ r.result \in {OkTrue} \cup RegistryErrors
           /\ r.result # OkTrue => r.types = validCredentialTypes
    /\ \A contract_caller \in {sender, ACCESS_CONTROL} \cup OtherContracts :
         \E r \in {record_provider_activity(contract_caller, provider)} :
           /\ r.result \in {OkTrue} \cup RegistryErrors
           /\ r.result # OkTrue => r.status = providerStatus

C15_LedgerAndAuditCalls ==
  \A sender \in Principals, provider \in Providers \cup {"p2"}, patient_bns \in PatientBns :
    /\ \A d \in GrantExpiryOffsets, record_scope \in Scopes, max_accesses \in MaxAccessesChoices :
         \E r \in {grant_access(sender, provider, patient_bns, height + d, record_scope, max_accesses)} :
           /\ r.result \in {OkTrue} \cup LedgerErrors \cup RegistryErrors
           /\ r.result # OkTrue => (r.grants = accessGrants /\ r.status = providerStatus)
    /\ \E r \in {use_access(sender, provider, patient_bns)} :
         /\ r.result \in {OkTrue} \cup LedgerErrors \cup RegistryErrors
         /\ r.result # OkTrue => (r.grants = accessGrants /\ r.status = providerStatus)
    /\ \E r \in {revoke_access(sender, provider, patient_bns)} :
         /\ r.result \in {OkTrue} \cup LedgerErrors
         /\ r.result # OkTrue => r.grants = accessGrants
    /\ \A record_scope \in Scopes, expires_at \in {None, Some(height), Some(height + 1)} :
         \E r \in {approve_provider_access(sender, provider, record_scope, expires_at)} :
           /\ r.result \in {OkTrue} \cup LedgerErrors
           /\ r.result # OkTrue => r.consents = patientConsents
    /\ \E r \in {revoke_provider_consent(sender, provider)} :
         /\ r.result \in {OkTrue} \cup LedgerErrors
         /\ r.result # OkTrue => r.consents = patientConsents
    /\ \A contract_caller \in {sender, ACCESS_CONTROL} \cup OtherContracts, event_id \in EventIds, event_type \in EventTypes :
         \E r \in {log_event(contract_caller, event_id, patient_bns, provider, event_type, <<"lab-results">>, None)} :
           /\ r.result \in {OkTrue} \cup AuditErrors
           /\ r.result # OkTrue =>
                (r.events = auditEvents /\ r.index = patientEventIndex /\ r.count = patientEventCount)

C16_RegisteredState ==
  /\ DOMAIN providerCredentials = DOMAIN providerStatus
  /\ \A provider \in DOMAIN providerCredentials :
       /\ <<provider, generate_verification_id(provider)>> \in DOMAIN credentialVerifications
       /\ \A sender \in Principals, license_number \in Licenses, credential_types \in TypeLists,
             d \in CredentialExpiryOffsets, issuing_authority \in Authorities, credential_hash \in CredentialHashes :
            \E r \in {register_provider(sender, provider, license_number, credential_types, height + d, issuing_authority, credential_hash)} :
              /\ r.result # OkTrue
              /\ sender = CONTRACT_OWNER => r.result = ERR_PROVIDER_ALREADY_EXISTS
              /\ r.credentials = providerCredentials
              /\ r.status = providerStatus
              /\ r.verifications = credentialVerifications

C16_RegisterStep ==
  \A provider \in Providers :
    /\ (provider \notin DOMAIN providerCredentials /\ provider \in DOMAIN providerCredentials') =>
         /\ last'.op = "register-provider" /\ last'.provider = provider /\ last'.sender = CONTRACT_OWNER
         /\ providerCredentials'[provider].verification_status = "verified"
         /\ providerCredentials'[provider].suspension_reason = None
         /\ providerCredentials'[provider].issued_at = height
         /\ provider \notin DOMAIN providerStatus
         /\ providerStatus'[provider].status = "active"
         /\ providerStatus'[provider].access_count = 0
         /\ providerStatus'[provider].registration_date = height
         /\ DOMAIN credentialVerifications' = DOMAIN credentialVerifications \cup {<<provider, generate_verification_id(provider)>>}
         /\ <<provider, generate_verification_id(provider)>> \notin DOMAIN credentialVerifications
    /\ provider \in DOMAIN providerCredentials =>
         /\ provider \in DOMAIN providerCredentials'
         /\ providerCredentials'[provider].issued_at = providerCredentials[provider].issued_at
         /\ providerCredentials'[provider].license_number = providerCredentials[provider].license_number
         /\ credentialVerifications' = credentialVerifications
    /\ provider \in DOMAIN providerStatus =>
         /\ provider \in DOMAIN providerStatus'
         /\ providerStatus'[provider].registration_date = providerStatus[provider].registration_date

\* C16: a provider is registered at most once: the step that creates its
\* provider-credentials record (verified, no suspension reason) also creates
\* its provider-status record (active, access-count 0) and one
\* credential-verifications entry; from then on register-provider for it
\* fails for every caller, with ERR-PROVIDER-ALREADY-EXISTS (u306) for the
\* owner, and changes nothing; and no step removes or re-creates either record.
C16_RegisteredOnce == ([]C16_RegisteredState) /\ [][C16_RegisterStep]_vars

C16_Witness ==
  /\ Registered("p1")
  /\ height > providerStatus["p1"].registration_date
  /\ providerStatus["p1"].access_count = 2
  /\ last.op = "update-provider-credentials"
  /\ register_provider(CONTRACT_OWNER, "p1", "MD123456", <<"medical-license">>, height + MIN_CREDENTIAL_VALIDITY_BLOCKS + 1,
                       "State Medical Board", "hash-1").result = ERR_PROVIDER_ALREADY_EXISTS

\* C17: update-provider-credentials validates the new expiry and the new
\* credential types exactly as register-provider does: for a registered
\* provider the owner's update of (expiry, types) succeeds exactly when the
\* owner's registration of a provider without a record, at the same height
\* with the same expiry and types, passes its expiry and type checks; an
\* expiry not greater than height + 144 is rejected with u307.
C17_UpdateValidatesAsRegister ==
  \A provider \in DOMAIN providerCredentials, d \in CredentialExpiryOffsets, credential_types \in TypeLists :
    \E u \in {update_provider_credentials(CONTRACT_OWNER, provider, height + d, credential_types)},
       r \in {register_provider(CONTRACT_OWNER, "p2", "MD123456", credential_types, height + d, "State Medical Board", "hash-1")} :
      /\ (u.result = OkTrue) <=> (r.result = OkTrue)
      /\ ~(height + d > height + MIN_CREDENTIAL_VALIDITY_BLOCKS) => u.result = ERR_INVALID_EXPIRY_DATE

\* C18: verify-provider succeeds exactly when the provider has a record with
\* verification-status verified, expires-at greater than the height and status
\* active; otherwise it returns u301 when there is no record, u303 whenever
\* expires-at <= height, u304 when the credentials are unexpired and the
\* status is not active, and never any other code.
C18_VerifyProviderCodes ==
  \A provider \in Providers \cup {"p2"} :
    /\ (verify_provider(provider) = OkTrue) <=>
         /\ Registered(provider)
         /\ providerCredentials[provider].verification_status = "verified"
         /\ providerCredentials[provider].expires_at > height
         /\ providerStatus[provider].status = "active"
    /\ ~Registered(provider) => verify_provider(provider) = ERR_PROVIDER_NOT_FOUND
    /\ (Registered(provider) /\ providerCredentials[provider].expires_at <= height) =>
         verify_provider(provider) = ERR_CREDENTIALS_EXPIRED
    /\ (Registered(provider) /\ providerCredentials[provider].expires_at > height
          /\ providerStatus[provider].status # "active") =>
         verify_provider(provider) = ERR_PROVIDER_SUSPENDED
    /\ verify_provider(provider) \in {OkTrue, ERR_PROVIDER_NOT_FOUND, ERR_CREDENTIALS_EXPIRED, ERR_PROVIDER_SUSPENDED}

\* C19: has-access succeeds exactly when a grant exists with status active,
\* expiry-block greater than the height and, if max-accesses is set,
\* access-count below it; otherwise it returns u103 when there is no grant,
\* u102 whenever expiry-block <= height, and u101 when the grant is unexpired
\* and revoked or exhausted.
C19_HasAccessCodes ==
  \A provider \in Providers \cup {"p2"}, patient_bns \in PatientBns :
    \E k \in {<<patient_bns, provider>>} :
      /\ (has_access(provider, patient_bns) = OkTrue) <=>
           /\ k \in GrantKeys
           /\ accessGrants[k].status = "active"
           /\ accessGrants[k].expiry_block > height
           /\ (accessGrants[k].max_accesses = None \/ accessGrants[k].access_count < accessGrants[k].max_accesses[1])
      /\ k \notin GrantKeys => has_access(provider, patient_bns) = ERR_GRANT_NOT_FOUND
      /\ (k \in GrantKeys /\ accessGrants[k].expiry_block <= height) =>
           has_access(provider, patient_bns) = ERR_GRANT_EXPIRED
      /\ (k \in GrantKeys /\ accessGrants[k].expiry_block > height
            /\ (accessGrants[k].status # "active" \/ Exhausted(k))) =>
           has_access(provider, patient_bns) = ERR_INVALID_GRANT

C20_UseAccessEffect ==
  \A sender \in Principals, provider \in Providers \cup {"p2"}, patient_bns \in PatientBns :
    \E r \in {use_access(sender, provider, patient_bns)}, k \in {<<patient_bns, provider>>} :
      /\ r.result = OkTrue =>
           /\ has_access(provider, patient_bns) = OkTrue
           /\ DOMAIN r.grants = DOMAIN accessGrants
           /\ \A j \in GrantKeys \ {k} : r.grants[j] = accessGrants[j]
           /\ r.grants[k] = [accessGrants[k] EXCEPT !.access_count = accessGrants[k].access_count + 1,
                                                    !.last_accessed = Some(height)]
           /\ r.grants[k].status = accessGrants[k].status
           /\ r.grants[k].expiry_block = accessGrants[k].expiry_block
           /\ r.grants[k].record_scope = accessGrants[k].record_scope
           /\ r.grants[k].granted_by = accessGrants[k].granted_by
           /\ r.grants[k].max_accesses = accessGrants[k].max_accesses
           /\ DOMAIN r.status = DOMAIN providerStatus
           /\ \A other \in DOMAIN providerStatus \ {provider} : r.status[other] = providerStatus[other]
           /\ r.status[provider] = [providerStatus[provider] EXCEPT
                                      !.access_count = providerStatus[provider].access_count + 1,
                                      !.last_activity = height]
      /\ has_access(provider, patient_bns) # OkTrue =>
           /\ r.result = has_access(provider, patient_bns)
           /\ r.grants = accessGrants
           /\ r.status = providerStatus

C20_UseStep ==
  \A k \in GrantKeys :
    (k \in DOMAIN accessGrants' /\ accessGrants'[k].access_count > accessGrants[k].access_count) =>
      /\ last'.op = "use-access" /\ last'.provider = k[2] /\ last'.patient = k[1]
      /\ has_access(k[2], k[1]) = OkTrue
      /\ accessGrants'[k].access_count = accessGrants[k].access_count + 1
      /\ accessGrants'[k].last_accessed = Some(height)
      /\ providerStatus'[k[2]].access_count = providerStatus[k[2]].access_count + 1
      /\ providerStatus'[k[2]].last_activity = height
      /\ height' = height

\* C20: use-access succeeds only where has-access succeeds, and then, in one
\* step, adds exactly one to the grant's access-count, sets its last-accessed
\* to the height, adds exactly one to the provider's access-count and sets its
\* last-activity to the height, leaving every other field and every other
\* record as it was; where has-access fails, use-access returns the same
\* error and changes nothing.
C20_UseAccessCounts == ([]C20_UseAccessEffect) /\ [][C20_UseStep]_vars

C20_Witness ==
  /\ last.op = "use-access"
  /\ <<"patient-1", "p1">> \in GrantKeys
  /\ accessGrants[<<"patient-1", "p1">>].max_accesses = None
  /\ accessGrants[<<"patient-1", "p1">>].access_count = 1
  /\ accessGrants[<<"patient-1", "p1">>].last_accessed = Some(height)
  /\ accessGrants[<<"patient-1", "p1">>].granted_at < height
  /\ providerStatus["p1"].access_count = 2
  /\ providerStatus["p1"].last_activity = height
  /\ use_access("p1", "p1", "patient-1").result = OkTrue

ConsentKeys == DOMAIN patientConsents
ConsentExpiries == {None, Some(height), Some(height + 1)}

\* C21: approve-provider-access by a patient who already has a consent record
\* for the provider, approved or revoked, returns ERR-INVALID-GRANT (u101)
\* whatever the scope and expiry are and leaves the map unchanged; with no
\* record and an empty scope it returns ERR-INVALID-SCOPE (u106).
C21_ApproveOnlyOnce ==
  \A sender \in Principals, provider \in Providers \cup {"p2"}, record_scope \in Scopes, expires_at \in ConsentExpiries :
    \E r \in {approve_provider_access(sender, provider, record_scope, expires_at)} :
      /\ <<sender, provider>> \in ConsentKeys =>
           (r.result = ERR_INVALID_GRANT /\ r.consents = patientConsents)
      /\ (<<sender, provider>> \notin ConsentKeys /\ record_scope = <<>>) =>
           (r.result = ERR_INVALID_SCOPE /\ r.consents = patientConsents)

C21_Witness ==
  /\ <<"p1", "p1">> \in ConsentKeys
  /\ patientConsents[<<"p1", "p1">>].status = CONSENT_REVOKED
  /\ last.op = "revoke-provider-consent"
  /\ approve_provider_access("p1", "p1", <<"lab-results">>, None).result = ERR_INVALID_GRANT
  /\ approve_provider_access("deployer", "p1", <<>>, None).result = ERR_INVALID_SCOPE

\* C22: has-patient-consent succeeds exactly when a record exists with status
\* approved and no expiry or an expiry greater than the height; otherwise it
\* returns u107 when there is no record, u108 whenever the status is revoked
\* (also when the expiry has passed), and u102 when the status is approved
\* and the expiry is not greater than the height.
C22_HasPatientConsentCodes ==
  \A patient \in Principals, provider \in Providers \cup {"p2"} :
    \E k \in {<<patient, provider>>} :
      /\ (has_patient_consent(patient, provider) = OkTrue) <=>
           /\ k \in ConsentKeys
           /\ patientConsents[k].status = CONSENT_APPROVED
           /\ (patientConsents[k].consent_expires_at = None \/ patientConsents[k].consent_expires_at[1] > height)
      /\ k \notin ConsentKeys => has_patient_consent(patient, provider) = ERR_CONSENT_NOT_FOUND
      /\ (k \in ConsentKeys /\ patientConsents[k].status = CONSENT_REVOKED) =>
           has_patient_consent(patient, provider) = ERR_CONSENT_NOT_APPROVED
      /\ (k \in ConsentKeys /\ patientConsents[k].status = CONSENT_APPROVED
            /\ patientConsents[k].consent_expires_at # None
            /\ patientConsents[k].consent_expires_at[1] <= height) =>
           has_patient_consent(patient, provider) = ERR_GRANT_EXPIRED
      /\ k \in ConsentKeys => patientConsents[k].status \in {CONSENT_APPROVED, CONSENT_REVOKED}

C22_Witness ==
  /\ <<"deployer", "p1">> \in ConsentKeys
  /\ <<"p1", "p1">> \in ConsentKeys
  /\ patientConsents[<<"deployer", "p1">>].status = CONSENT_REVOKED
  /\ patientConsents[<<"deployer", "p1">>].consent_expires_at = Some(2)
  /\ patientConsents[<<"p1", "p1">>].status = CONSENT_APPROVED
  /\ patientConsents[<<"p1", "p1">>].consent_expires_at = Some(height)
  /\ height = 3
  /\ has_patient_consent("deployer", "p1") = ERR_CONSENT_NOT_APPROVED
  /\ has_patient_consent("p1", "p1") = ERR_GRANT_EXPIRED

C23_OwnRecordOnly ==
  \A sender \in Principals, provider \in Providers \cup {"p2"} :
    /\ \A record_scope \in Scopes, expires_at \in ConsentExpiries :
         \E r \in {approve_provider_access(sender, provider, record_scope, expires_at)} :
           /\ DOMAIN r.consents \subseteq ConsentKeys \cup {<<sender, provider>>}
           /\ \A k \in ConsentKeys : r.consents[k] = patientConsents[k]
    /\ \E r \in {revoke_provider_consent(sender, provider)} :
         /\ DOMAIN r.consents = ConsentKeys
         /\ \A k \in ConsentKeys \ {<<sender, provider>>} : r.consents[k] = patientConsents[k]
         /\ r.result = OkTrue =>
              r.consents[<<sender, provider>>] =
                [patientConsents[<<sender, provider>>] EXCEPT !.status = CONSENT_REVOKED,
                                                              !.revoked_at = Some(height),
                                                              !.revoked_by = Some(sender)]

C23_ConsentStep ==
  /\ ConsentKeys \subseteq DOMAIN patientConsents'
  /\ \A k \in DOMAIN patientConsents' \ ConsentKeys :
       /\ last'.op = "approve-provider-access" /\ last'.sender = k[1] /\ last'.provider = k[2]
       /\ patientConsents'[k].status = CONSENT_APPROVED
       /\ patientConsents'[k].consent_given_at = height
       /\ patientConsents'[k].revoked_at = None /\ patientConsents'[k].revoked_by = None
  /\ \A k \in ConsentKeys :
       patientConsents'[k] # patientConsents[k] =>
         /\ last'.op = "revoke-provider-consent" /\ last'.sender = k[1] /\ last'.provider = k[2]
         /\ patientConsents'[k] = [patientConsents[k] EXCEPT !.status = CONSENT_REVOKED,
                                                           !.revoked_at = Some(height),
                                                           !.revoked_by = Some(k[1])]

\* C23: the consent record of patient p for provider q is created only by an
\* approve-provider-access sent by p and modified only by a
\* revoke-provider-consent sent by p, which sets status revoked, revoked-by p
\* and revoked-at the current height and nothing else; no call by another
\* sender touches the record, and no record is ever removed.
C23_ConsentOnlyByPatient == ([]C23_OwnRecordOnly) /\ [][C23_ConsentStep]_vars

C23_Witness ==
  /\ last.op = "revoke-provider-consent"
  /\ last.sender = "deployer"
  /\ <<"deployer", "p1">> \in ConsentKeys
  /\ <<"p1", "p1">> \in ConsentKeys
  /\ patientConsents[<<"deployer", "p1">>].revoked_by = Some("deployer")
  /\ patientConsents[<<"deployer", "p1">>].revoked_at = Some(height)
  /\ patientConsents[<<"deployer", "p1">>].consent_given_at < height
  /\ patientConsents[<<"p1", "p1">>].status = CONSENT_APPROVED

\* the results of the four grant functions are the same before and after the step
C24_GrantResultsKept ==
  \A sender \in Principals, provider \in Providers \cup {"p2"}, patient_bns \in PatientBns :
    /\ has_access(provider, patient_bns)' = has_access(provider, patient_bns)
    /\ use_access(sender, provider, patient_bns)' = use_access(sender, provider, patient_bns)
    /\ revoke_access(sender, provider, patient_bns)' = revoke_access(sender, provider, patient_bns)
    /\ \A d \in GrantExpiryOffsets, record_scope \in Scopes, max_accesses \in MaxAccessesChoices :
         grant_access(sender, provider, patient_bns, height + d, record_scope, max_accesses)' =
           grant_access(sender, provider, patient_bns, height + d, record_scope, max_accesses)

C24_Step ==
  /\ patientConsents' # patientConsents =>
       /\ last'.op \in {"approve-provider-access", "revoke-provider-consent"}
       /\ accessGrants' = accessGrants
       /\ registryVars' = registryVars
       /\ auditVars' = auditVars
       /\ C24_GrantResultsKept
  /\ (accessGrants' # accessGrants \/ providerStatus' # providerStatus) =>
       patientConsents' = patientConsents

C25_StoredStatuses ==
  /\ \A k \in GrantKeys : accessGrants[k].status \in {"active", "revoked"}
  /\ \A k \in ConsentKeys : patientConsents[k].status \in {CONSENT_APPROVED, CONSENT_REVOKED}
  /\ \A sender \in Principals, provider \in Providers, patient_bns \in PatientBns :
       /\ \A k \in DOMAIN revoke_access(sender, provider, patient_bns).grants :
            revoke_access(sender, provider, patient_bns).grants[k].status \in {"active", "revoked"}
       /\ \A k \in DOMAIN use_access(sender, provider, patient_bns).grants :
            use_access(sender, provider, patient_bns).grants[k].status \in {"active", "revoked"}
       /\ \A record_scope \in Scopes, expires_at \in ConsentExpiries :
            \A k \in DOMAIN approve_provider_access(sender, provider, record_scope, expires_at).consents :
              approve_provider_access(sender, provider, record_scope, expires_at).consents[k].status
                \in {CONSENT_APPROVED, CONSENT_REVOKED}

C25_Step ==
  /\ height' # height => UNCHANGED <<registryVars, ledgerVars, auditVars>>
  /\ \A k \in DOMAIN accessGrants' :
       (k \notin GrantKeys \/ accessGrants'[k].status # accessGrants[k].status) =>
         \/ /\ accessGrants'[k].status = "active"
            /\ last'.op = "grant-access" /\ last'.patient = k[1] /\ last'.provider = k[2]
         \/ /\ accessGrants'[k].status = "revoked"
            /\ k \in GrantKeys
            /\ last'.op = "revoke-access" /\ last'.patient = k[1] /\ last'.provider = k[2]

C26_FreshGrant ==
  \A sender \in Principals, provider \in Providers, patient_bns \in PatientBns, d \in GrantExpiryOffsets,
     record_scope \in Scopes \cup {<<"imaging", "lab-results">>}, max_accesses \in MaxAccessesChoices \cup {<<1>>} :
    grant_access(sender, provider, patient_bns, height + d, record_scope, max_accesses).result = OkTrue =>
      /\ DOMAIN grant_access(sender, provider, patient_bns, height + d, record_scope, max_accesses).grants
           = GrantKeys \cup {<<patient_bns, provider>>}
      /\ grant_access(sender, provider, patient_bns, height + d, record_scope, max_accesses).grants[<<patient_bns, provider>>]
           = [expiry_block |-> height + d, record_scope |-> record_scope, granted_at |-> height,
              granted_by |-> sender, status |-> "active", max_accesses |-> max_accesses,
              access_count |-> 0, last_accessed |-> None]
      /\ \A k \in GrantKeys \ {<<patient_bns, provider>>} :
           grant_access(sender, provider, patient_bns, height + d, record_scope, max_accesses).grants[k] = accessGrants[k]

C26_GrantStep ==
  (last'.op = "grant-access" /\ providerStatus' # providerStatus) =>
     /\ <<last'.patient, last'.provider>> \in DOMAIN accessGrants'
     /\ accessGrants'[<<last'.patient, last'.provider>>].status = "active"
     /\ accessGrants'[<<last'.patient, last'.provider>>].access_count = 0
     /\ accessGrants'[<<last'.patient, last'.provider>>].last_accessed = None
     /\ accessGrants'[<<last'.patient, last'.provider>>].granted_at = height
     /\ accessGrants'[<<last'.patient, last'.provider>>].granted_by = last'.sender
     /\ accessGrants'[<<last'.patient, last'.provider>>].expiry_block > height
     /\ \A k \in GrantKeys \ {<<last'.patient, last'.provider>>} : accessGrants'[k] = accessGrants[k]

\* C26: a successful grant-access for a pair overwrites whatever grant the pair
\* had (active, revoked, expired or exhausted): the stored grant is exactly the
\* new record (status active, access-count 0, no last-accessed, granted-at the
\* current height, the new expiry, scope, granter and max-accesses) and every
\* other pair's grant is untouched.
C26_GrantOverwrites == ([]C26_FreshGrant) /\ [][C26_GrantStep]_vars

C26_Witness ==
  /\ last = [op |-> "grant-access", sender |-> "p1", provider |-> "p1", patient |-> "patient-1"]
  /\ <<"patient-1", "p1">> \in GrantKeys
  /\ accessGrants[<<"patient-1", "p1">>].granted_at = MaxHeight
  /\ accessGrants[<<"patient-1", "p1">>].granted_by = "p1"
  /\ accessGrants[<<"patient-1", "p1">>].access_count = 0
  /\ accessGrants[<<"patient-1", "p1">>].max_accesses = None
  /\ providerStatus["p1"].access_count = MaxProviderAccesses

\* C27: for a verified provider and a non-empty patient id, grant-access
\* answers ERR-INVALID-GRANT exactly when the expiry block is not after the
\* current height or lies more than MAX-GRANT-DURATION blocks ahead; a
\* duration of exactly MAX-GRANT-DURATION with a non-empty scope and an absent
\* or non-zero max-accesses is accepted.
C27_GrantDurationBound ==
  \A sender \in Principals, provider \in Providers, patient_bns \in PatientBns \ {""}, d \in GrantExpiryOffsets,
     record_scope \in Scopes, max_accesses \in MaxAccessesChoices :
    verify_provider(provider) = OkTrue =>
      /\ grant_access(sender, provider, patient_bns, height + d, record_scope, max_accesses).result = ERR_INVALID_GRANT
           <=> (~(height + d > height) \/ d > MAX_GRANT_DURATION)
      /\ (d = MAX_GRANT_DURATION /\ Len(record_scope) > 0 /\ (max_accesses = None \/ max_accesses[1] > 0))
           => grant_access(sender, provider, patient_bns, height + d, record_scope, max_accesses).result = OkTrue

C28_StatusState ==
  /\ DOMAIN providerStatus = DOMAIN providerCredentials
  /\ \A provider \in DOMAIN providerStatus :
       /\ providerStatus[provider].status \in {"active", "suspended"}
       /\ (providerCredentials[provider].suspension_reason # None) <=> (providerStatus[provider].status = "suspended")
  /\ \A provider \in Providers \cup {"stranger"} :
       /\ ~Registered(provider) => reactivate_provider(CONTRACT_OWNER, provider).result = ERR_PROVIDER_NOT_FOUND
       /\ (Registered(provider) /\ ~Suspended(provider))
            => reactivate_provider(CONTRACT_OWNER, provider).result = ERR_INVALID_CREDENTIALS
       /\ Suspended(provider) => reactivate_provider(CONTRACT_OWNER, provider).result = OkTrue
       /\ \A sender \in Principals :
            reactivate_provider(sender, provider).result # OkTrue =>
              /\ reactivate_provider(sender, provider).status = providerStatus
              /\ reactivate_provider(sender, provider).credentials = providerCredentials

C28_StatusStep ==
  \A provider \in DOMAIN providerStatus' :
    /\ provider \notin DOMAIN providerStatus =>
         /\ providerStatus'[provider].status = "active"
         /\ last'.op = "register-provider" /\ last'.provider = provider
    /\ (provider \in DOMAIN providerStatus /\ providerStatus'[provider].status # providerStatus[provider].status) =>
         \/ /\ providerStatus'[provider].status = "suspended"
            /\ last'.op = "suspend-provider" /\ last'.provider = provider
         \/ /\ providerStatus'[provider].status = "active"
            /\ last'.op = "reactivate-provider" /\ last'.provider = provider

\* C28: a provider's status is always active or suspended; it starts active at
\* registration and afterwards changes only by suspend-provider (to suspended)
\* and reactivate-provider (to active); reactivate-provider by the owner
\* answers ERR-PROVIDER-NOT-FOUND for an unregistered provider and
\* ERR-INVALID-CREDENTIALS when the status is not suspended, and a failed call
\* changes nothing; the suspension reason is present exactly when the status
\* is suspended.
C28_StatusToggles == ([]C28_StatusState) /\ [][C28_StatusStep]_vars

C28_Witness ==
  /\ last.op = "reactivate-provider"
  /\ Registered("p1")
  /\ providerStatus["p1"].status = "active"
  /\ providerCredentials["p1"].suspension_reason = None
  /\ reactivate_provider(CONTRACT_OWNER, "p1").result = ERR_INVALID_CREDENTIALS

C29_UpdateResult ==
  /\ \A sender \in Principals, provider \in Providers, d \in CredentialExpiryOffsets, new_credential_types \in TypeLists :
       update_provider_credentials(sender, provider, height + d, new_credential_types).result = OkTrue =>
         /\ DOMAIN update_provider_credentials(sender, provider, height + d, new_credential_types).credentials
              = DOMAIN providerCredentials
         /\ \A p \in DOMAIN providerCredentials :
              update_provider_credentials(sender, provider, height + d, new_credential_types).credentials[p] =
                IF p = provider
                THEN [license_number |-> providerCredentials[p].license_number,
                      issued_at |-> providerCredentials[p].issued_at,
                      issuing_authority |-> providerCredentials[p].issuing_authority,
                      verification_status |-> providerCredentials[p].verification_status,
                      suspension_reason |-> providerCredentials[p].suspension_reason,
                      credential_types |-> new_credential_types,
                      expires_at |-> height + d,
                      last_verified |-> height]
                ELSE providerCredentials[p]
  /\ \A provider \in Providers :
       Registered(provider) <=>
         Cardinality({k \in DOMAIN credentialVerifications : k[1] = provider}) = 1
  /\ \A k \in DOMAIN credentialVerifications : Registered(k[1])

C29_UpdateStep ==
  /\ (last'.op = "update-provider-credentials" /\ providerCredentials' # providerCredentials) =>
       /\ providerStatus' = providerStatus
       /\ credentialVerifications' = credentialVerifications
       /\ DOMAIN providerCredentials' = DOMAIN providerCredentials
       /\ \A p \in DOMAIN providerCredentials :
            /\ providerCredentials'[p].license_number = providerCredentials[p].license_number
            /\ providerCredentials'[p].issued_at = providerCredentials[p].issued_at
            /\ providerCredentials'[p].issuing_authority = providerCredentials[p].issuing_authority
            /\ providerCredentials'[p].verification_status = providerCredentials[p].verification_status
            /\ providerCredentials'[p].suspension_reason = providerCredentials[p].suspension_reason
            /\ p # last'.provider => providerCredentials'[p] = providerCredentials[p]
  /\ \A k \in DOMAIN credentialVerifications :
       k \in DOMAIN credentialVerifications' /\ credentialVerifications'[k] = credentialVerifications[k]
  /\ \A k \in DOMAIN credentialVerifications' \ DOMAIN credentialVerifications :
       /\ last'.op = "register-provider" /\ last'.provider = k[1]
       /\ credentialVerifications'[k].verification_date = height

\* C29: a successful update-provider-credentials changes only the credential's
\* types, expires-at and last-verified: licence number, issued-at, issuing
\* authority, verification status, suspension reason, the provider's status
\* record and the verification entries stay as they were; there is exactly one
\* verification entry per registered provider, written by its registration
\* and never changed afterwards.
C29_UpdateFrame == ([]C29_UpdateResult) /\ [][C29_UpdateStep]_vars

C29_Witness ==
  /\ last.op = "update-provider-credentials"
  /\ Suspended("p1")
  /\ Registered("p1")
  /\ providerCredentials["p1"].suspension_reason # None
  /\ providerCredentials["p1"].last_verified > providerCredentials["p1"].issued_at
  /\ credentialVerifications[<<"p1", generate_verification_id("p1")>>].verification_date
       = providerCredentials["p1"].issued_at

\* C30: has-record-scope-access applies the validity test of has-access and
\* then the scope test: it succeeds only where has-access succeeds and the
\* record type is in the grant's scope, answers ERR-INVALID-GRANT when
\* has-access succeeds but the record type is not in scope, and
\* ERR-GRANT-NOT-FOUND when the pair has no grant.
C30_ScopeAccessImpliesAccess ==
  \A provider \in Providers, patient_bns \in PatientBns, record_type \in {"lab-results", "imaging"} :
    /\ has_record_scope_access(provider, patient_bns, record_type) = OkTrue =>
         /\ has_access(provider, patient_bns) = OkTrue
         /\ \E i \in 1..Len(accessGrants[<<patient_bns, provider>>].record_scope) :
              accessGrants[<<patient_bns, provider>>].record_scope[i] = record_type
    /\ (/\ has_access(provider, patient_bns) = OkTrue
        /\ \A i \in 1..Len(accessGrants[<<patient_bns, provider>>].record_scope) :
             accessGrants[<<patient_bns, provider>>].record_scope[i] # record_type)
         => has_record_scope_access(provider, patient_bns, record_type) = ERR_INVALID_GRANT
    /\ <<patient_bns, provider>> \notin GrantKeys
         => has_record_scope_access(provider, patient_bns, record_type) = ERR_GRANT_NOT_FOUND

C31_StoredTypesValid ==
  /\ \A provider \in DOMAIN providerCredentials :
       \A i \in 1..Len(providerCredentials[provider].credential_types) :
         providerCredentials[provider].credential_types[i] \in DOMAIN validCredentialTypes
  /\ \A sender \in Principals, provider \in Providers \cup {"p2"}, d \in CredentialExpiryOffsets,
        credential_types \in TypeLists \cup {<<"dea-registration">>} :
       (\E i \in 1..Len(credential_types) : credential_types[i] \notin DOMAIN validCredentialTypes) =>
         /\ register_provider(sender, provider, "MD123456", credential_types, height + d,
                              "State Medical Board", "hash-1").result # OkTrue
         /\ update_provider_credentials(sender, provider, height + d, credential_types).result # OkTrue
         /\ (sender = CONTRACT_OWNER /\ ~Registered(provider) /\ d > MIN_CREDENTIAL_VALIDITY_BLOCKS) =>
              register_provider(sender, provider, "MD123456", credential_types, height + d,
                                "State Medical Board", "hash-1").result = ERR_INVALID_CREDENTIAL_TYPE
         /\ (sender = CONTRACT_OWNER /\ Registered(provider) /\ d > 0) =>
              update_provider_credentials(sender, provider, height + d, credential_types).result
                = ERR_INVALID_CREDENTIAL_TYPE
  /\ \A sender \in Principals, credential_type \in CredentialTypes \cup {"dea-registration"} :
       DOMAIN validCredentialTypes
         \subseteq DOMAIN add_credential_type(sender, credential_type, "Medical License", TRUE).types

C31_TypesStep == DOMAIN validCredentialTypes \subseteq DOMAIN validCredentialTypes'

\* C31: every credential-type tag stored in a provider's credential is in the
\* valid-credential-types map: register-provider and
\* update-provider-credentials refuse a list with an unregistered tag (with
\* ERR-INVALID-CREDENTIAL-TYPE once their earlier checks pass), and no step
\* removes a registered type.
C31_StoredTypesRegistered == ([]C31_StoredTypesValid) /\ [][C31_TypesStep]_vars

C31_Witness ==
  /\ Registered("p1")
  /\ last.op = "update-provider-credentials"
  /\ providerCredentials["p1"].credential_types = <<"medical-license">>
  /\ validCredentialTypes["medical-license"].created_at = MaxHeight
  /\ update_provider_credentials(CONTRACT_OWNER, "p1", height + 1, <<"medical-license", "dea-registration">>).result
       = ERR_INVALID_CREDENTIAL_TYPE

C32_RevokedRefusesUse ==
  \A k \in GrantKeys :
    accessGrants[k].status = "revoked" =>
      \A sender \in Principals :
        /\ use_access(sender, k[2], k[1]).result \in {ERR_INVALID_GRANT, ERR_GRANT_EXPIRED}
        /\ use_access(sender, k[2], k[1]).grants = accessGrants
        /\ use_access(sender, k[2], k[1]).status = providerStatus

C32_RevokeThenUse ==
  \A k \in GrantKeys :
    (has_access(k[2], k[1]) = OkTrue /\ accessGrants'[k].status = "revoked") =>
      \A sender \in Principals :
        /\ use_access(sender, k[2], k[1])'.result = ERR_INVALID_GRANT
        /\ use_access(sender, k[2], k[1])'.grants = accessGrants'
        /\ use_access(sender, k[2], k[1])'.status = providerStatus'
        /\ accessGrants'[k].access_count = accessGrants[k].access_count
        /\ providerStatus' = providerStatus

C32_UseThenRevoke ==
  \A k \in GrantKeys :
    (has_access(k[2], k[1]) = OkTrue /\ accessGrants'[k].access_count = accessGrants[k].access_count + 1) =>
      /\ last'.op = "use-access" /\ last'.patient = k[1] /\ last'.provider = k[2]
      /\ accessGrants'[k].status = "active"
      /\ providerStatus'[k[2]].access_count = providerStatus[k[2]].access_count + 1
      /\ \A sender \in Principals :
           /\ revoke_access(sender, k[2], k[1])'.result = OkTrue
           /\ revoke_access(sender, k[2], k[1])'.grants[k].status = "revoked"
           /\ revoke_access(sender, k[2], k[1])'.grants[k].access_count = accessGrants[k].access_count + 1

C32_NoUseAfterRevocation ==
  /\ \A k \in GrantKeys :
       (accessGrants[k].status = "revoked" /\ accessGrants'[k].status = "revoked") =>
          accessGrants'[k].access_count = accessGrants[k].access_count
  /\ (last'.op = "use-access" /\ providerStatus' # providerStatus) =>
       /\ <<last'.patient, last'.provider>> \in GrantKeys
       /\ accessGrants[<<last'.patient, last'.provider>>].status = "active"

\* C32: transactions are serialized, and for a revoke-access and a use-access
\* submitted together on a valid grant both orders end with the stored status
\* revoked: when the revocation commits first, the use-access that follows is
\* refused with ERR-INVALID-GRANT and changes nothing; when the use-access
\* commits first it counts once and the revocation that follows succeeds and
\* keeps that count; while a grant stays revoked neither its access-count nor,
\* through use-access, the provider's access-count grows.
C32_RevokeUseSerializations ==
  /\ []C32_RevokedRefusesUse
  /\ [][C32_RevokeThenUse /\ C32_UseThenRevoke /\ C32_NoUseAfterRevocation]_vars

C32_Witness ==
  /\ last.op = "revoke-access"
  /\ <<"patient-1", "p1">> \in GrantKeys
  /\ accessGrants[<<"patient-1", "p1">>].status = "revoked"
  /\ accessGrants[<<"patient-1", "p1">>].access_count = 1
  /\ accessGrants[<<"patient-1", "p1">>].expiry_block > height
  /\ accessGrants[<<"patient-1", "p1">>].max_accesses = Some(2)
  /\ providerStatus["p1"].access_count = 2
  /\ use_access("p1", "p1", "patient-1").result = ERR_INVALID_GRANT

\* C33: registerPatient succeeds at most once per BNS name, also when calls
\* for the same name overlap at their await points: at most one call per name
\* resolves, and the stored profile is the one that call created.
C33_RegisterPatientOnce ==
  \A c \in CallIds :
    registerPatientCalls[c].pc = "resolved" =>
      /\ \A c2 \in CallIds \ {c} :
           registerPatientCalls[c2].pc = "resolved" =>
             registerPatientCalls[c2].registration[1].bnsName # registerPatientCalls[c].registration[1].bnsName
      /\ patientProfiles[registerPatientCalls[c].registration[1].bnsName].publicKey
           = generateKeyPair(c, registerPatientCalls[c].registration[1].bnsName).publicKey

C34_WithinLimit ==
  \A k \in GrantKeys :
    accessGrants[k].max_accesses # None =>
      /\ accessGrants[k].max_accesses[1] >= 1
      /\ accessGrants[k].access_count <= accessGrants[k].max_accesses[1]

C34_CountStep ==
  \A k \in GrantKeys :
    accessGrants'[k].access_count # accessGrants[k].access_count =>
      \/ /\ accessGrants'[k].access_count = accessGrants[k].access_count + 1
         /\ last'.op = "use-access" /\ last'.patient = k[1] /\ last'.provider = k[2]
         /\ accessGrants'[k].max_accesses = accessGrants[k].max_accesses
         /\ accessGrants'[k].granted_at = accessGrants[k].granted_at
         /\ accessGrants[k].max_accesses # None => accessGrants[k].access_count < accessGrants[k].max_accesses[1]
      \/ /\ accessGrants'[k].access_count = 0
         /\ last'.op = "grant-access" /\ last'.patient = k[1] /\ last'.provider = k[2]

\* C34: every stored grant with a usage limit has max-accesses >= 1 and
\* access-count <= max-accesses; the count starts at 0 with each grant-access
\* and grows only by one per successful use-access, which needs the count to
\* be below the limit, so at most max-accesses uses succeed between two
\* grants of a pair.
C34_UsageWithinLimit == ([]C34_WithinLimit) /\ [][C34_CountStep]_vars

C34_Witness ==
  /\ last.op = "use-access"
  /\ <<"patient-1", "p1">> \in GrantKeys
  /\ accessGrants[<<"patient-1", "p1">>].max_accesses = Some(2)
  /\ accessGrants[<<"patient-1", "p1">>].access_count = 2
  /\ accessGrants[<<"patient-1", "p1">>].expiry_block > height
  /\ use_access("p1", "p1", "patient-1").result = ERR_INVALID_GRANT

C35_SameProviders ==
  /\ DOMAIN providerCredentials = DOMAIN providerStatus
  /\ DOMAIN providerCredentials = {k[1] : k \in DOMAIN credentialVerifications}
  /\ \A provider \in Providers \cup {"p2"} :
       \* suspend-provider and reactivate-provider test provider-status and
       \* then unwrap provider-credentials; update-provider-credentials tests
       \* and unwraps provider-credentials
       /\ MapGet(providerStatus, provider) # None => MapGet(providerCredentials, provider) # None
       /\ \A sender \in Principals, reason \in Reasons :
            suspend_provider(sender, provider, reason).result = OkTrue =>
              /\ DOMAIN suspend_provider(sender, provider, reason).credentials = DOMAIN providerCredentials
              /\ DOMAIN suspend_provider(sender, provider, reason).status = DOMAIN providerStatus
       /\ \A sender \in Principals :
            reactivate_provider(sender, provider).result = OkTrue =>
              /\ DOMAIN reactivate_provider(sender, provider).credentials = DOMAIN providerCredentials
              /\ DOMAIN reactivate_provider(sender, provider).status = DOMAIN providerStatus

C35_GrowTogether ==
  /\ DOMAIN providerCredentials \subseteq DOMAIN providerCredentials'
  /\ DOMAIN providerStatus \subseteq DOMAIN providerStatus'
  /\ DOMAIN credentialVerifications \subseteq DOMAIN credentialVerifications'
  /\ DOMAIN providerCredentials' # DOMAIN providerCredentials => last'.op = "register-provider"

\* C35: a provider has a credential record exactly when it has a status
\* record and exactly when it has a verification entry; the three appear
\* together at registration and none is ever removed, so the unwrap-panic
\* lookups that follow the existence checks of suspend-provider,
\* reactivate-provider and update-provider-credentials always find a record.
C35_RecordsExistTogether == ([]C35_SameProviders) /\ [][C35_GrowTogether]_vars

C35_Witness ==
  /\ last.op = "suspend-provider"
  /\ DOMAIN providerStatus = {"p1"}
  /\ DOMAIN providerCredentials = {"p1"}
  /\ DOMAIN credentialVerifications = {<<"p1", generate_verification_id("p1")>>}
  /\ providerCredentials["p1"].suspension_reason # None
  /\ providerStatus["p1"].access_count > 0

\* C36: the provider of every stored grant has a provider-status record, so
\* the record-provider-activity call nested in grant-access and use-access
\* always succeeds once their own checks have passed: neither function ever
\* returns ERR-NOT-AUTHORIZED or ERR-PROVIDER-NOT-FOUND, grant-access succeeds
\* exactly when its six checks pass and use-access exactly when has-access
\* does.
C36_NestedActivitySucceeds ==
  /\ \A k \in GrantKeys : MapGet(providerStatus, k[2]) # None
  /\ \A sender \in Principals, provider \in Providers \cup {"p2"}, patient_bns \in PatientBns :
       /\ has_access(provider, patient_bns) = OkTrue =>
            record_provider_activity(ACCESS_CONTROL, provider).result = OkTrue
       /\ verify_provider(provider) = OkTrue =>
            record_provider_activity(ACCESS_CONTROL, provider).result = OkTrue
       /\ use_access(sender, provider, patient_bns).result \notin {ERR_NOT_AUTHORIZED, ERR_PROVIDER_NOT_FOUND}
       /\ (use_access(sender, provider, patient_bns).result = OkTrue) <=> (has_access(provider, patient_bns) = OkTrue)
       /\ \A d \in GrantExpiryOffsets, record_scope \in Scopes, max_accesses \in MaxAccessesChoices :
            /\ grant_access(sender, provider, patient_bns, height + d, record_scope, max_accesses).result
                 \notin {ERR_NOT_AUTHORIZED, ERR_PROVIDER_NOT_FOUND}
            /\ (grant_access(sender, provider, patient_bns, height + d, record_scope, max_accesses).result = OkTrue)
                 <=> (/\ verify_provider(provider) = OkTrue
                      /\ Len(patient_bns) > 0
                      /\ height + d > height
                      /\ d < MAX_GRANT_DURATION
                      /\ Len(record_scope) > 0
                      /\ (max_accesses = None \/ max_accesses[1] > 0))

C36_Witness ==
  /\ last.op = "use-access"
  /\ Suspended("p1")
  /\ <<"patient-1", "p1">> \in GrantKeys
  /\ accessGrants[<<"patient-1", "p1">>].access_count = 1
  /\ accessGrants[<<"patient-1", "p1">>].last_accessed = Some(height)
  /\ providerStatus["p1"].last_activity = height
  /\ providerStatus["p1"].access_count = 2
  /\ height > providerStatus["p1"].registration_date

C37_CountedOnce ==
  \A sender \in Principals, provider \in DOMAIN providerStatus, patient_bns \in PatientBns :
    /\ providerStatus[provider].access_count >= 0
    /\ use_access(sender, provider, patient_bns).result = OkTrue =>
         /\ use_access(sender, provider, patient_bns).status[provider].access_count
              = providerStatus[provider].access_count + 1
         /\ use_access(sender, provider, patient_bns).status[provider].last_activity = height
    /\ \A d \in GrantExpiryOffsets, record_scope \in Scopes, max_accesses \in MaxAccessesChoices :
         grant_access(sender, provider, patient_bns, height + d, record_scope, max_accesses).result = OkTrue =>
           /\ grant_access(sender, provider, patient_bns, height + d, record_scope, max_accesses).status[provider].access_count
                = providerStatus[provider].access_count + 1
           /\ grant_access(sender, provider, patient_bns, height + d, record_scope, max_accesses).status[provider].last_activity
                = height
    /\ \A reason \in Reasons :
         /\ suspend_provider(sender, provider, reason).status[provider].access_count = providerStatus[provider].access_count
         /\ suspend_provider(sender, provider, reason).status[provider].last_activity = providerStatus[provider].last_activity
    /\ reactivate_provider(sender, provider).status[provider].access_count = providerStatus[provider].access_count
    /\ reactivate_provider(sender, provider).status[provider].last_activity = providerStatus[provider].last_activity

C37_CountStep ==
  /\ \A provider \in DOMAIN providerStatus' \ DOMAIN providerStatus :
       providerStatus'[provider].access_count = 0
  /\ \A provider \in DOMAIN providerStatus :
       (\/ providerStatus'[provider].access_count # providerStatus[provider].access_count
        \/ providerStatus'[provider].last_activity # providerStatus[provider].last_activity) =>
          /\ providerStatus'[provider].access_count = providerStatus[provider].access_count + 1
          /\ providerStatus'[provider].last_activity = height
          /\ last'.op \in {"grant-access", "use-access"}
          /\ last'.provider = provider
  /\ (last'.op \in {"grant-access", "use-access"} /\ accessGrants' # accessGrants) =>
       providerStatus'[last'.provider].access_count = providerStatus[last'.provider].access_count + 1

\* C37: a provider's access-count is 0 at registration and grows by exactly
\* one with every committed grant-access and use-access that names the
\* provider, for any sender and also while the provider is suspended; it
\* never decreases, and no other transaction changes it or last-activity.
C37_ActivityCount == ([]C37_CountedOnce) /\ [][C37_CountStep]_vars

C37_Witness ==
  /\ last = [op |-> "use-access", sender |-> "deployer", provider |-> "p1", patient |-> "patient-1"]
  /\ Suspended("p1")
  /\ providerStatus["p1"].access_count = MaxProviderAccesses
  /\ accessGrants[<<"patient-1", "p1">>].access_count = 1
  /\ providerStatus["p1"].updated_by = CONTRACT_OWNER

C38_RevokedState ==
  \A k \in ConsentKeys :
    /\ revoke_provider_consent(k[1], k[2]).result = OkTrue
    /\ k \in DOMAIN revoke_provider_consent(k[1], k[2]).consents
    /\ revoke_provider_consent(k[1], k[2]).consents[k].status = CONSENT_REVOKED
    /\ patientConsents[k].status = CONSENT_REVOKED =>
         /\ has_patient_consent(k[1], k[2]) = ERR_CONSENT_NOT_APPROVED
         /\ patientConsents[k].revoked_at # None
         /\ \A record_scope \in Scopes, expires_at \in ConsentExpiries :
              /\ approve_provider_access(k[1], k[2], record_scope, expires_at).result = ERR_INVALID_GRANT
              /\ approve_provider_access(k[1], k[2], record_scope, expires_at).consents = patientConsents
         /\ revoke_provider_consent(k[1], k[2]).result = OkTrue
         /\ revoke_provider_consent(k[1], k[2]).consents[k]
              = [patientConsents[k] EXCEPT !.revoked_at = Some(height)]
         /\ \A sender \in Principals \ {k[1]} :
              /\ revoke_provider_consent(sender, k[2]).consents[k] = patientConsents[k]
              /\ \A record_scope \in Scopes, expires_at \in ConsentExpiries :
                   approve_provider_access(sender, k[2], record_scope, expires_at).consents[k] = patientConsents[k]

C38_RevokedStep ==
  \A k \in ConsentKeys :
    /\ k \in DOMAIN patientConsents'
    /\ patientConsents[k].status = CONSENT_REVOKED =>
         /\ k \in DOMAIN patientConsents'
         /\ patientConsents'[k].status = CONSENT_REVOKED
         /\ has_patient_consent(k[1], k[2])' = ERR_CONSENT_NOT_APPROVED
         /\ patientConsents'[k] # patientConsents[k] =>
              /\ last'.op = "revoke-provider-consent"
              /\ patientConsents'[k] = [patientConsents[k] EXCEPT !.revoked_at = Some(height)]

\* C38: consent revocation is permanent: once a consent record is revoked it
\* is never deleted and its status stays revoked in every later state, so
\* has-patient-consent answers ERR-CONSENT-NOT-APPROVED from then on, at any
\* height; approve-provider-access for the pair is refused; a repeated
\* revoke-provider-consent succeeds and changes only revoked-at.
C38_RevocationPermanent == ([]C38_RevokedState) /\ [][C38_RevokedStep]_vars

C38_Witness ==
  /\ last = [op |-> "revoke-provider-consent", sender |-> "p1", provider |-> "p1", patient |-> "p1"]
  /\ <<"p1", "p1">> \in ConsentKeys
  /\ patientConsents[<<"p1", "p1">>].status = CONSENT_REVOKED
  /\ patientConsents[<<"p1", "p1">>].consent_given_at = 1
  /\ patientConsents[<<"p1", "p1">>].consent_expires_at = None
  /\ patientConsents[<<"p1", "p1">>].revoked_at = Some(MaxHeight)
  /\ has_patient_consent("p1", "p1") = ERR_CONSENT_NOT_APPROVED

C39_ExpiredState ==
  \A k \in GrantKeys :
    height >= accessGrants[k].expiry_block =>
      /\ has_access(k[2], k[1]) # OkTrue
      /\ \A sender \in Principals :
           /\ use_access(sender, k[2], k[1]).result # OkTrue
           /\ use_access(sender, k[2], k[1]).grants = accessGrants

C39_ExpiredStep ==
  \A k \in GrantKeys :
    (height >= accessGrants[k].expiry_block /\ has_access(k[2], k[1])' = OkTrue) =>
      /\ last'.op = "grant-access" /\ last'.patient = k[1] /\ last'.provider = k[2]
      /\ accessGrants'[k].granted_at = height
      /\ accessGrants'[k].expiry_block > height

C39_Lapsing(k) == k \in GrantKeys /\ accessGrants[k].expiry_block <= MaxHeight

C39_Refused(k) ==
  /\ has_access(k[2], k[1]) # OkTrue
  /\ \A sender \in Principals : use_access(sender, k[2], k[1]).result # OkTrue

C39_EventuallyExpired ==
  \A k \in PatientBns \X Providers : (<>[]C39_Lapsing(k)) => (<>[]C39_Refused(k))

\* C39: access ends with time: with the height advancing, a pair whose grant
\* is no longer replaced by one that outlasts the heights of the model reaches
\* a point from which has-access and use-access are refused for ever; and from
\* a height at or past the expiry block has-access and use-access fail and
\* keep failing across every step except a committed grant-access for the
\* pair.
C39_AccessExpires == ([]C39_ExpiredState) /\ [][C39_ExpiredStep]_vars /\ C39_EventuallyExpired

C39_Witness ==
  /\ height = MaxHeight
  /\ <<"patient-1", "p1">> \in GrantKeys
  /\ accessGrants[<<"patient-1", "p1">>].status = "active"
  /\ accessGrants[<<"patient-1", "p1">>].granted_at = 1
  /\ accessGrants[<<"patient-1", "p1">>].expiry_block = 2
  /\ accessGrants[<<"patient-1", "p1">>].max_accesses = None
  /\ has_access("p1", "patient-1") = ERR_GRANT_EXPIRED
  /\ use_access("p1", "p1", "patient-1").result = ERR_GRANT_EXPIRED

\* a consent whose expiry was not in the future when it was given
C40_BornExpired(k) ==
  /\ k \in ConsentKeys
  /\ patientConsents[k].consent_expires_at # None
  /\ patientConsents[k].consent_expires_at[1] <= patientConsents[k].consent_given_at

\* C40 as claimed: a consent approved with an expiry that is not in the future
\* makes has-patient-consent answer ERR-GRANT-EXPIRED at once and for ever.
C40_ExpiredForever ==
  \A k \in ConsentKeys :
    C40_BornExpired(k) => has_patient_consent(k[1], k[2]) = ERR_GRANT_EXPIRED

C40_StaleState ==
  /\ \A sender \in Principals, provider \in Providers \cup {"p2"} :
       \A expires_at \in {Some(height), Some(height - 1)} :
         <<sender, provider>> \notin ConsentKeys =>
           /\ approve_provider_access(sender, provider, <<"lab-results">>, expires_at).result = OkTrue
           /\ approve_provider_access(sender, provider, <<"lab-results">>, expires_at).consents[<<sender, provider>>]
                = [status |-> CONSENT_APPROVED, record_scope |-> <<"lab-results">>, consent_given_at |-> height,
                   consent_expires_at |-> expires_at, revoked_at |-> None, revoked_by |-> None]
  /\ \A k \in ConsentKeys :
       C40_BornExpired(k) =>
         /\ has_patient_consent(k[1], k[2])
              = IF patientConsents[k].status = CONSENT_APPROVED THEN ERR_GRANT_EXPIRED ELSE ERR_CONSENT_NOT_APPROVED
         /\ \A sender \in Principals, record_scope \in Scopes, expires_at \in ConsentExpiries :
              /\ approve_provider_access(sender, k[2], record_scope, expires_at).consents[k] = patientConsents[k]
              /\ sender = k[1] =>
                   approve_provider_access(sender, k[2], record_scope, expires_at).result = ERR_INVALID_GRANT

C40_StaleStep ==
  \A k \in ConsentKeys :
    C40_BornExpired(k) =>
      /\ C40_BornExpired(k)'
      /\ patientConsents'[k].consent_expires_at = patientConsents[k].consent_expires_at
      /\ patientConsents'[k].consent_given_at = patientConsents[k].consent_given_at
      /\ has_patient_consent(k[1], k[2])' \in {ERR_GRANT_EXPIRED, ERR_CONSENT_NOT_APPROVED}

\* C40 (amended): approve-provider-access does not validate the expiry: with a
\* non-empty scope and no prior record, an expiry at or before the current
\* height is accepted and stored as an approved consent; for such a record
\* has-patient-consent never succeeds, answering ERR-GRANT-EXPIRED while the
\* status is approved and ERR-CONSENT-NOT-APPROVED once the patient has
\* revoked it, and the record is never replaced: every later
\* approve-provider-access for the pair is refused and leaves it unchanged.
C40_StaleConsentNeverValid == ([]C40_StaleState) /\ [][C40_StaleStep]_vars

C40_Witness ==
  /\ last.op = "approve-provider-access"
  /\ C40_BornExpired(<<"p1", "p1">>)
  /\ patientConsents[<<"p1", "p1">>].status = CONSENT_APPROVED
  /\ patientConsents[<<"p1", "p1">>].consent_given_at = 2
  /\ height = MaxHeight
  /\ has_patient_consent("p1", "p1") = ERR_GRANT_EXPIRED
  /\ approve_provider_access("p1", "p1", <<"lab-results">>, Some(height + 1)).result = ERR_INVALID_GRANT

====
